---- MODULE Spec2Model ----
(***************************************************************************)
(* otel-budget-proxy: the admission-control engine.                        *)
(*                                                                         *)
(* The shared store (Redis) holds one usage counter per window key.  Each  *)
(* inbound request is served by its own goroutine running handleRequest;   *)
(* the goroutines interleave at their network calls (the budget script,    *)
(* the forward to the upstream, the refund DECRBY).  The repository holds  *)
(* two builds of the handler: src/main.go (fail-open sampling, drop        *)
(* metric, no refund) and src/unnamed/part_000 (expansion factor, refund,  *)
(* no fail-open).  A deployment runs one of them, under one window policy: *)
(* `handler` and the configuration are fixed by Init.                      *)
(*                                                                         *)
(* Time is counted in ticks of one grace period (the 5 minutes that        *)
(* getWindowTTL adds to the window length).  A store call that returns an  *)
(* error is modelled as not having reached the store.                      *)
(***************************************************************************)
EXTENDS Integers, Sequences, FiniteSets

\* ---------------------------------------------------------------- bounds
NumReq == 2
MaxTime == 3

\* ------------------------------------------------------ program constants
\* budgetBytes: the flat ceiling of a window (MAX_MEGABYTES_PER_WINDOW).
budgetBytes == 1000
\* hourlyBudgetBytes: the per-hour ceilings of a validated schedule (static
\* mode), here a quiet hour 0 followed by busier hours.
hourlyBudgetBytes == [h \in 0..23 |-> IF h = 0 THEN 600 ELSE 1000]
\* Length of an hourly window and of the grace period, in ticks.
TicksPerHour == 2
GraceTicks == 1
\* A handler's store and upstream calls are bounded (http.Client Timeout of
\* 15 s, go-redis socket timeouts): from reading the clock to its last store
\* call a handler spans less than one grace period, so at most one tick.
MaxHandlerTicks == 1

Reqs == 1..NumReq
Handlers == {"main", "part000"}
\* Uncompressed body sizes of the requests, all > 0.
MainSizes == {400, 600}
Part000Sizes == {396, 591}
\* FAIL_OPEN_SAMPLE_RATE and rand.Float64(), both in hundredths.
RatePercents == {0, 50}
SamplePercents == {0, 75}
\* Upstream answers: a status (200 OK, the success answer of an OTLP/HTTP
\* receiver, or 404), or ForwardErr for a transport error.
ForwardErr == -1
UpstreamStatuses == {200, 404}
ForwardOutcomes == UpstreamStatuses \cup {ForwardErr}

StatusAccepted == 202
StatusTooManyRequests == 429
StatusInternalServerError == 500
StatusBadGateway == 502
StatusServiceUnavailable == 503

\* handler             which build of handleRequest serves the requests
\* budgetWindowType    the window policy (BUDGET_WINDOW_TYPE)
\* failOpenSampleRate  the configured fail-open rate, in hundredths
\* now                 the wall clock, in ticks
\* store               the Redis keyspace: window key -> counter and expiry
\* req                 each request: its goroutine's position and locals, and
\*                     log, the record of what it did, in order
\* expired             the window keys the store has deleted by expiry
\* startup             init(): its position, the schedule document and
\*                     environment it reads and the hourly budget table it
\*                     computes, or the FAIL_OPEN_SAMPLE_RATE text it reads
\* estimation          one call of the hydration estimator: the payload it
\*                     is given and the result it returns
\* outage              the collaborators that do not reply (the store, the
\*                     upstream) and the requests whose client has
\*                     disconnected
VARIABLES outage, estimation, startup, handler, budgetWindowType,
          failOpenSampleRate, now, store, req, expired

vars == <<outage, estimation, startup, handler, budgetWindowType,
          failOpenSampleRate, now, store, req, expired>>

\* ------------------------------------------------------------ the store
NoExpiry == -1
Absent == [exists |-> FALSE, val |-> 0, exp |-> NoExpiry]

\* Redis INCRBY: an absent key counts as 0 and is created without expiry.
INCRBY(s, k, n) ==
    [s EXCEPT ![k] = IF s[k].exists
                     THEN [s[k] EXCEPT !.val = s[k].val + n]
                     ELSE [exists |-> TRUE, val |-> n, exp |-> NoExpiry]]

DECRBY(s, k, n) == INCRBY(s, k, 0 - n)

\* Redis PTTL at time t: -2 no key, -1 no expiry, else the remaining time.
PTTL(s, k, t) ==
    IF ~s[k].exists THEN -2
    ELSE IF s[k].exp = NoExpiry THEN -1
    ELSE s[k].exp - t

PEXPIRE(s, k, ttl, t) ==
    IF s[k].exists THEN [s EXCEPT ![k].exp = t + ttl] ELSE s

\* What a client reads for the counter (GET ... Int64, 0 for a missing key).
Usage(k) == IF store[k].exists THEN store[k].val ELSE 0

\* ------------------------------------------------------- window manager
\* The UTC calendar date (in days since the epoch) and hour of day of instant t.
HoursPerDay == 24
UTCDate(t) == t \div (HoursPerDay * TicksPerHour)
UTCHour(t) == (t \div TicksPerHour) % HoursPerDay

\* Faulty variant: the layout "2006-01-02T03" prints the hour of the 12-hour
\* clock.
getWindowKey_12h(t) ==
    IF budgetWindowType = "daily" THEN UTCDate(t)
    ELSE UTCDate(t) * HoursPerDay + (UTCHour(t) % 12)

\* Faulty variant: the TTL is the window length, without the grace.
getWindowTTL_nograce ==
    IF budgetWindowType = "daily" THEN HoursPerDay * TicksPerHour ELSE TicksPerHour

\* now.Format: "2006-01-02" prints the date, "2006-01-02T15" the date and the
\* hour of the 24-hour clock.  A key is coded by the number its fields spell:
\* the date alone, or date * 24 + hour.
getWindowKey(t) ==
    IF budgetWindowType = "daily" THEN UTCDate(t)
    ELSE UTCDate(t) * HoursPerDay + UTCHour(t)
\* 24 h + 5 min for the daily policy, else 1 h + 5 min.
getWindowTTL ==
    IF budgetWindowType = "daily" THEN HoursPerDay * TicksPerHour + GraceTicks
    ELSE TicksPerHour + GraceTicks
\* main.go: under schedule policy the ceiling of the clock's UTC hour.
getCurrentBudget(t) ==
    IF budgetWindowType = "schedule"
    THEN hourlyBudgetBytes[UTCHour(t)]
    ELSE budgetBytes

\* The hourly window keys of the instants 0..MaxTime.
Keys == 0..(MaxTime \div TicksPerHour)

\* ------------------------------------------------------------ the ledger
\* Faulty variants of the script, used to test the properties below.
\* The denied branch forgets the DECRBY.
checkBudgetLua_norevert(s, k, amount, budget, ttl, t) ==
    LET s1 == INCRBY(s, k, amount)
    IN  IF s1[k].val > budget
        THEN [store |-> s1, ret |-> 0]
        ELSE [store |-> IF PTTL(s1, k, t) < 0 THEN PEXPIRE(s1, k, ttl, t) ELSE s1,
              ret |-> 1]

\* The comparison is >= : a debit that lands exactly on the budget is denied.
checkBudgetLua_ge(s, k, amount, budget, ttl, t) ==
    LET s1 == INCRBY(s, k, amount)
    IN  IF s1[k].val >= budget
        THEN [store |-> DECRBY(s1, k, amount), ret |-> 0]
        ELSE [store |-> IF PTTL(s1, k, t) < 0 THEN PEXPIRE(s1, k, ttl, t) ELSE s1,
              ret |-> 1]

\* The usage before the increment is compared with the budget.
checkBudgetLua_stale(s, k, amount, budget, ttl, t) ==
    LET s1 == INCRBY(s, k, amount)
    IN  IF s1[k].val - amount > budget
        THEN [store |-> DECRBY(s1, k, amount), ret |-> 0]
        ELSE [store |-> IF PTTL(s1, k, t) < 0 THEN PEXPIRE(s1, k, ttl, t) ELSE s1,
              ret |-> 1]

\* The denied branch reverts by the budget overshoot instead of the amount.
checkBudgetLua_clamp(s, k, amount, budget, ttl, t) ==
    LET s1 == INCRBY(s, k, amount)
    IN  IF s1[k].val > budget
        THEN [store |-> DECRBY(s1, k, s1[k].val - budget), ret |-> 0]
        ELSE [store |-> IF PTTL(s1, k, t) < 0 THEN PEXPIRE(s1, k, ttl, t) ELSE s1,
              ret |-> 1]

\* The expiry is armed only when the call created the key (the counter equals
\* the amount): a key that lost its expiry is not healed.
checkBudgetLua_armoncreate(s, k, amount, budget, ttl, t) ==
    LET s1 == INCRBY(s, k, amount)
    IN  IF s1[k].val > budget
        THEN [store |-> DECRBY(s1, k, amount), ret |-> 0]
        ELSE [store |-> IF ~s[k].exists THEN PEXPIRE(s1, k, ttl, t) ELSE s1,
              ret |-> 1]

\* A new key starts from what the previous window's counter holds.
checkBudgetLua_carry(s, k, amount, budget, ttl, t) ==
    LET carried == IF ~s[k].exists /\ k - 1 \in DOMAIN s /\ s[k - 1].exists
                   THEN s[k - 1].val ELSE 0
        s1 == INCRBY(s, k, amount + carried)
    IN  IF s1[k].val > budget
        THEN [store |-> DECRBY(s1, k, amount + carried), ret |-> 0]
        ELSE [store |-> IF PTTL(s1, k, t) < 0 THEN PEXPIRE(s1, k, ttl, t) ELSE s1,
              ret |-> 1]

\* Every allowed attempt calls PEXPIRE: the expiry slides with the traffic.
checkBudgetLua_refresh(s, k, amount, budget, ttl, t) ==
    LET s1 == INCRBY(s, k, amount)
    IN  IF s1[k].val > budget
        THEN [store |-> DECRBY(s1, k, amount), ret |-> 0]
        ELSE [store |-> PEXPIRE(s1, k, ttl, t), ret |-> 1]

\* checkBudgetLua, run by the store as one atomic step at time t.
checkBudgetLua(s, k, amount, budget, ttl, t) ==
    LET s1 == INCRBY(s, k, amount)
        current_usage == s1[k].val
    IN  IF current_usage > budget
        THEN [store |-> DECRBY(s1, k, amount), ret |-> 0]
        ELSE [store |-> IF PTTL(s1, k, t) < 0 THEN PEXPIRE(s1, k, ttl, t) ELSE s1,
              ret |-> 1]

\* part_000's expansion factor: int64(raw * (1 + (rMax-1)*(1 - exp(-raw/s))))
\* with rMax = 2.6 and s = 60000, evaluated at the body sizes of the model.
AdjSize(raw) ==
    CASE raw = 396 -> 400
      [] raw = 591 -> 600

\* Faulty variant: the sample is compared with <= and the rate is not tested.
FailOpenSelected_le(rate, sample) == sample <= rate

\* Faulty variant: every failed ledger call fails open.
FailOpenSelected_always(rate, sample) == TRUE

\* float64 values of the rate, in hundredths; NaN and +Inf are the values
\* strconv.ParseFloat gives for the texts "NaN" and "Inf".  Every ordered
\* comparison with a NaN operand is false.
NaN == -999999
PosInf == 999999
FloatLess(a, b) == a # NaN /\ b # NaN /\ a < b
FloatGreater(a, b) == a # NaN /\ b # NaN /\ a > b

\* The fail-open sample: failOpenSampleRate > 0 && rand.Float64() < rate.
FailOpenSelected(rate, sample) == FloatGreater(rate, 0) /\ FloatLess(sample, rate)

\* init() has returned: the process serves requests.
Started == [pc |-> "serving"]
\* No estimator call is in progress.
NoEstimation == [pc |-> "none"]
\* The store and the upstream reply and every client stays connected.
NoOutage == [store |-> FALSE, upstream |-> FALSE, gone |-> {}]

\* ------------------------------------------------------------ requests
Ev(e, k, n) == [ev |-> e, k |-> k, n |-> n]
NoKey == -1

IdleReq == [pc |-> "idle", size |-> 0, amount |-> 0, key |-> NoKey,
            budget |-> 0, age |-> 0, up |-> 0, resp |-> 0, log |-> <<>>]

Has(r, e) == \E i \in 1..Len(req[r].log) : req[r].log[i].ev = e
Count(r, E) == Cardinality({i \in 1..Len(req[r].log) : req[r].log[i].ev \in E})
InFlight(r) == req[r].pc \notin {"idle", "done"}

\* Requests are numbered in the order they arrive.
MayStart(r) == req[r].pc = "idle" /\ \A q \in Reqs : q < r => req[q].pc # "idle"

Finish(rec, status, events) ==
    [rec EXCEPT !.pc = "done", !.resp = status, !.age = 0,
                !.log = rec.log \o events \o <<Ev("respond", NoKey, status)>>]

\* part_000 knows the hourly and daily policies only, main.go also schedule;
\* part_000 parses the fail-open rate and never reads it again.
Init ==
    /\ outage = NoOutage
    /\ estimation = NoEstimation
    /\ startup = Started
    /\ handler \in Handlers
    /\ budgetWindowType \in IF handler = "main" THEN {"hourly", "schedule"}
                                               ELSE {"hourly"}
    /\ failOpenSampleRate \in IF handler = "main" THEN RatePercents ELSE {0}
    /\ now = 0
    /\ store = [k \in Keys |-> Absent]
    /\ req = [r \in Reqs |-> IdleReq]
    /\ expired = {}

\* The clock advances one tick; the store drops the keys whose expiry passed.
Tick ==
    /\ now < MaxTime
    /\ \A r \in Reqs : InFlight(r) => req[r].age < MaxHandlerTicks
    /\ now' = now + 1
    /\ LET gone == {k \in Keys : store[k].exists /\ store[k].exp # NoExpiry
                                   /\ store[k].exp <= now + 1}
       IN  /\ store' = [k \in Keys |-> IF k \in gone THEN Absent ELSE store[k]]
           /\ expired' = expired \cup gone
    /\ req' = [r \in Reqs |-> IF InFlight(r)
                               THEN [req[r] EXCEPT !.age = req[r].age + 1]
                               ELSE req[r]]
    /\ UNCHANGED <<outage, estimation, startup, handler, budgetWindowType, failOpenSampleRate>>

\* ------------------------------------------- handleRequest of src/main.go
\* The body size is read and the window key is derived from the clock; the
\* size debited is the request size itself.
MainStart(r) ==
    /\ handler = "main"
    /\ MayStart(r)
    /\ \E requestSize \in MainSizes :
          req' = [req EXCEPT ![r] = [IdleReq EXCEPT !.pc = "budget",
                                       !.size = requestSize,
                                       !.amount = requestSize,
                                       !.key = getWindowKey(now)]]
    /\ UNCHANGED <<outage, estimation, startup, handler, budgetWindowType, failOpenSampleRate, now, store, expired>>

\* getCurrentBudget reads the clock again for the ceiling.
MainBudget(r) ==
    /\ handler = "main"
    /\ req[r].pc = "budget"
    /\ req' = [req EXCEPT ![r].pc = "script", ![r].budget = getCurrentBudget(now)]
    /\ UNCHANGED <<outage, estimation, startup, handler, budgetWindowType, failOpenSampleRate, now, store, expired>>

\* Faulty variant: the http.Client has no Timeout; a forward to an upstream
\* that does not reply never returns.
ForwardReturns_notimeout(r) ==
    IF outage.upstream THEN {}
    ELSE IF r \in outage.gone \/ Has(r, "readerr") THEN {ForwardErr}
    ELSE ForwardOutcomes

\* What forwardRequest can return.  client.Do gives up on an upstream that
\* does not reply when the http.Client's Timeout of 15 s has passed, and on a
\* request whose client has gone when the request's context is cancelled:
\* both are transport errors.  So is a body that fails while client.Do
\* streams it (main.go hands r.Body to the forward when the length is
\* declared).
ForwardReturns(r) ==
    IF outage.upstream \/ r \in outage.gone \/ Has(r, "readerr")
    THEN {ForwardErr} ELSE ForwardOutcomes

\* What the caller gets after the forward of an admitted request returned.
MainForwardResponse(outcome) ==
    IF outcome = ForwardErr THEN StatusInternalServerError ELSE outcome

\* checkBudgetScript.Run: the store is unreachable or does not reply within
\* the go-redis timeouts (fail-over strategy), or the script runs and denies (drop metric to the upstream, 429) or allows.
MainScript(r) ==
    /\ handler = "main"
    /\ req[r].pc = "script"
    /\ \/ \E sample \in SamplePercents :
            /\ req' = [req EXCEPT ![r] =
                   IF FailOpenSelected(failOpenSampleRate, sample)
                   THEN [req[r] EXCEPT !.pc = "failopen",
                            !.log = req[r].log \o <<Ev("storeerr", req[r].key, sample)>>]
                   ELSE Finish(req[r], StatusServiceUnavailable,
                               <<Ev("storeerr", req[r].key, sample)>>)]
            /\ store' = store
       \/ LET res == checkBudgetLua(store, req[r].key, req[r].amount,
                                    req[r].budget, getWindowTTL, now)
          IN  /\ ~outage.store
              /\ store' = res.store
              /\ req' = [req EXCEPT ![r] =
                     IF res.ret = 0
                     THEN Finish(req[r], StatusTooManyRequests,
                                 <<Ev("denied", req[r].key, req[r].amount),
                                   Ev("metric", NoKey, req[r].size)>>)
                     ELSE [req[r] EXCEPT !.pc = "forward",
                              !.log = req[r].log \o
                                      <<Ev("allowed", req[r].key, req[r].amount)>>]]
    /\ UNCHANGED <<outage, estimation, startup, handler, budgetWindowType, failOpenSampleRate, now, expired>>

\* forwardRequest of an admitted request, and the response.
MainForward(r) ==
    /\ handler = "main"
    /\ req[r].pc = "forward"
    /\ \E outcome \in ForwardReturns(r) :
          req' = [req EXCEPT ![r] =
                    Finish([req[r] EXCEPT !.up = outcome],
                           MainForwardResponse(outcome),
                           <<Ev("forward", NoKey, req[r].size)>>)]
    /\ UNCHANGED <<outage, estimation, startup, handler, budgetWindowType, failOpenSampleRate, now, store, expired>>

\* Faulty variant: the fail-open path refunds when its forward fails.
MainFailOpenForward_refund(r) ==
    /\ handler = "main"
    /\ req[r].pc = "failopen"
    /\ \E outcome \in ForwardReturns(r) :
          /\ req' = [req EXCEPT ![r] =
                    Finish([req[r] EXCEPT !.up = outcome],
                           IF outcome = ForwardErr THEN StatusInternalServerError
                                                   ELSE StatusAccepted,
                           <<Ev("forward", NoKey, req[r].size)>>)]
          /\ store' = IF outcome = ForwardErr
                      THEN DECRBY(store, req[r].key, req[r].amount)
                      ELSE store
    /\ UNCHANGED <<outage, estimation, startup, handler, budgetWindowType, failOpenSampleRate, now, expired>>

\* forwardRequest on the fail-open path: 500 on an error, else 202.
MainFailOpenForward(r) ==
    /\ handler = "main"
    /\ req[r].pc = "failopen"
    /\ \E outcome \in ForwardReturns(r) :
          req' = [req EXCEPT ![r] =
                    Finish([req[r] EXCEPT !.up = outcome],
                           IF outcome = ForwardErr THEN StatusInternalServerError
                                                   ELSE StatusAccepted,
                           <<Ev("forward", NoKey, req[r].size)>>)]
    /\ UNCHANGED <<outage, estimation, startup, handler, budgetWindowType, failOpenSampleRate, now, store, expired>>

\* ------------------------------------ handleRequest of src/unnamed/part_000
\* The body is buffered; the size debited is the size adjusted by the
\* expansion factor; the window key and TTL are derived from the clock.
P0Start(r) ==
    /\ handler = "part000"
    /\ MayStart(r)
    /\ \E rawSize \in Part000Sizes :
          req' = [req EXCEPT ![r] = [IdleReq EXCEPT !.pc = "script",
                                       !.size = rawSize,
                                       !.amount = AdjSize(rawSize),
                                       !.budget = budgetBytes,
                                       !.key = getWindowKey(now)]]
    /\ UNCHANGED <<outage, estimation, startup, handler, budgetWindowType, failOpenSampleRate, now, store, expired>>

\* Faulty variant: the denied branch writes 429 and does not return.
P0Script_noreturn(r) ==
    /\ handler = "part000"
    /\ req[r].pc = "script"
    /\ LET res == checkBudgetLua(store, req[r].key, req[r].amount,
                                 budgetBytes, getWindowTTL, now)
       IN  /\ store' = res.store
           /\ req' = [req EXCEPT ![r] =
                  [req[r] EXCEPT !.pc = "forward",
                     !.resp = IF res.ret = 0 THEN StatusTooManyRequests ELSE 0,
                     !.log = req[r].log \o
                             <<Ev(IF res.ret = 0 THEN "denied" ELSE "allowed",
                                  req[r].key, req[r].amount)>>]]
    /\ UNCHANGED <<outage, estimation, startup, handler, budgetWindowType, failOpenSampleRate, now, expired>>

\* checkBudgetScript.Run: 503 when the store is unreachable, 429 when the
\* script denies, else on to the forward.
P0Script(r) ==
    /\ handler = "part000"
    /\ req[r].pc = "script"
    /\ \/ /\ req' = [req EXCEPT ![r] =
                   Finish(req[r], StatusServiceUnavailable,
                          <<Ev("storeerr", req[r].key, 0)>>)]
          /\ store' = store
       \/ LET res == checkBudgetLua(store, req[r].key, req[r].amount,
                                    budgetBytes, getWindowTTL, now)
          IN  /\ ~outage.store
              /\ store' = res.store
              /\ req' = [req EXCEPT ![r] =
                     IF res.ret = 0
                     THEN Finish(req[r], StatusTooManyRequests,
                                 <<Ev("denied", req[r].key, req[r].amount)>>)
                     ELSE [req[r] EXCEPT !.pc = "forward",
                              !.log = req[r].log \o
                                      <<Ev("allowed", req[r].key, req[r].amount)>>]]
    /\ UNCHANGED <<outage, estimation, startup, handler, budgetWindowType, failOpenSampleRate, now, expired>>

\* fwdErr != nil || status >= 300
P0ForwardFailed(outcome) == outcome = ForwardErr \/ outcome >= 300

\* Faulty variant: any upstream answer is reported as 202, as on main.go's
\* fail-open path.
P0ForwardResponse_accepted(outcome) ==
    IF outcome = ForwardErr THEN StatusBadGateway ELSE StatusAccepted

\* What the caller gets once the forward returned: 502 on a transport error,
\* else the upstream's status (failure or success).
P0ForwardResponse(outcome) ==
    IF outcome = ForwardErr THEN StatusBadGateway ELSE outcome

\* forwardRequest of the buffered body; on success the upstream's status is
\* the response, on failure the handler goes on to refund.
P0Forward(r) ==
    /\ handler = "part000"
    /\ req[r].pc = "forward"
    /\ \E outcome \in ForwardReturns(r) :
          req' = [req EXCEPT ![r] =
                    IF P0ForwardFailed(outcome)
                    THEN [req[r] EXCEPT !.pc = "refund", !.up = outcome,
                             !.log = req[r].log \o <<Ev("forward", NoKey, req[r].size)>>]
                    ELSE Finish([req[r] EXCEPT !.up = outcome],
                                P0ForwardResponse(outcome),
                                <<Ev("forward", NoKey, req[r].size)>>)]
    /\ UNCHANGED <<outage, estimation, startup, handler, budgetWindowType, failOpenSampleRate, now, store, expired>>

\* Faulty variant: the refund uses the raw size, not the size debited.
P0RefundArgs_raw(rec) == [key |-> rec.key, n |-> rec.size]

\* The arguments of the refund: rdb.DecrBy(ctx, key, sizeForBudgeting).
P0RefundArgs(rec) == [key |-> rec.key, n |-> rec.amount]

\* The refund DECRBY (a failure is logged and swallowed), then the response.
P0Refund(r) ==
    /\ handler = "part000"
    /\ req[r].pc = "refund"
    /\ LET a == P0RefundArgs(req[r])
       IN  \/ /\ ~outage.store
              /\ store' = DECRBY(store, a.key, a.n)
              /\ req' = [req EXCEPT ![r] =
                     Finish(req[r], P0ForwardResponse(req[r].up),
                            <<Ev("refund", a.key, a.n)>>)]
           \/ /\ store' = store
              /\ req' = [req EXCEPT ![r] =
                     Finish(req[r], P0ForwardResponse(req[r].up),
                            <<Ev("refunderr", a.key, a.n)>>)]
    /\ UNCHANGED <<outage, estimation, startup, handler, budgetWindowType, failOpenSampleRate, now, expired>>

Next ==
    \/ Tick
    \/ \E r \in Reqs :
          \/ MainStart(r)
          \/ MainBudget(r)
          \/ MainScript(r)
          \/ MainForward(r)
          \/ MainFailOpenForward(r)
          \/ P0Start(r)
          \/ P0Script(r)
          \/ P0Forward(r)
          \/ P0Refund(r)

Spec == Init /\ [][Next]_vars

\* ------------------------------------------------------------ properties
\* The requests whose debit attempt on window key k returned Allowed, those
\* whose attempt was denied, and those whose refund reached the store.
AllowedOn(k) == {r \in Reqs : \E i \in 1..Len(req[r].log) :
                    req[r].log[i].ev = "allowed" /\ req[r].log[i].k = k}
DeniedOn(k) == {r \in Reqs : \E i \in 1..Len(req[r].log) :
                    req[r].log[i].ev = "denied" /\ req[r].log[i].k = k}
RefundedOn(k) == {r \in Reqs : \E i \in 1..Len(req[r].log) :
                    req[r].log[i].ev = "refund" /\ req[r].log[i].k = k}

RECURSIVE SumAmounts(_)
SumAmounts(S) ==
    IF S = {} THEN 0
    ELSE LET r == CHOOSE x \in S : TRUE
         IN  req[r].amount + SumAmounts(S \ {r})

\* The script step of request r: it leaves "script" with the store's answer.
ScriptReturned(r) ==
    /\ req[r].pc = "script"
    /\ req'[r].pc # "script"
    /\ req'[r].log[Len(req[r].log) + 1].ev \in {"allowed", "denied"}
ReturnedAllowed(r) ==
    ScriptReturned(r) /\ req'[r].log[Len(req[r].log) + 1].ev = "allowed"
ReturnedDenied(r) ==
    ScriptReturned(r) /\ req'[r].log[Len(req[r].log) + 1].ev = "denied"

\* C1: with no refund and no expiry on a window key, its usage counter is
\* exactly the sum of the amounts of the attempts that returned Allowed, and
\* right after an attempt returned Allowed the counter is not above the
\* ceiling that attempt passed.
C1_SumOfAllowed ==
    \A k \in Keys :
        (k \notin expired /\ RefundedOn(k) = {}) =>
            Usage(k) = SumAmounts(AllowedOn(k))
C1_AllowedUnderCeiling ==
    \A r \in Reqs :
        ReturnedAllowed(r) => store'[req[r].key].val <= req[r].budget
C1_BudgetInvariant == [](C1_SumOfAllowed) /\ [][C1_AllowedUnderCeiling]_vars
\* Two attempts on one window were both allowed (400 + 600 = 1000).
C1_Witness ==
    \E k \in Keys :
        /\ Cardinality(AllowedOn(k)) >= 2
        /\ RefundedOn(k) = {}
        /\ k \notin expired
        /\ Usage(k) = 1000

\* The usage recorded on k by Allowed attempts that were not refunded.
LedgerSum(k) == SumAmounts(AllowedOn(k) \ RefundedOn(k))

\* C2: a debit attempt returns Allowed exactly when the usage recorded by
\* the Allowed and not refunded attempts on its key, plus its amount, is at
\* most the ceiling (equality admitted), else Denied; and of two attempts of
\* 600 on an otherwise unused window with ceiling 1000 exactly one is
\* Allowed, the other Denied, and the usage is 600.
C2_AllowedIffFits ==
    \A r \in Reqs :
        ScriptReturned(r) =>
            (ReturnedAllowed(r) <=>
                LedgerSum(req[r].key) + req[r].amount <= req[r].budget)
C2_TwoOf600 ==
    \A r1, r2 \in Reqs :
        LET k == req[r1].key
            decided == AllowedOn(k) \cup DeniedOn(k)
        IN  (/\ r1 # r2
             /\ req[r2].key = k
             /\ req[r1].amount = 600 /\ req[r2].amount = 600
             /\ req[r1].budget = 1000 /\ req[r2].budget = 1000
             /\ {r1, r2} \subseteq decided
             /\ AllowedOn(k) \subseteq {r1, r2}
             /\ RefundedOn(k) = {}
             /\ k \notin expired)
            => /\ Cardinality(AllowedOn(k)) = 1
               /\ Cardinality(DeniedOn(k) \cap {r1, r2}) = 1
               /\ Usage(k) = 600
C2_ExactAdmission == [][C2_AllowedIffFits]_vars /\ [](C2_TwoOf600)
\* Two attempts of 600 were in flight together on one window; one was
\* allowed, one denied.
C2_Witness ==
    \E r1, r2 \in Reqs :
        /\ r1 # r2 /\ req[r1].key = req[r2].key
        /\ req[r1].amount = 600 /\ req[r2].amount = 600
        /\ req[r1].budget = 1000 /\ req[r2].budget = 1000
        /\ r1 \in AllowedOn(req[r1].key) /\ req[r1].pc = "forward"
        /\ r2 \in DeniedOn(req[r1].key)
        /\ Usage(req[r1].key) = 600

\* C3: between ledger operations every window's usage counter is within
\* 0 .. ceiling, whatever the interleaving of debit attempts and refunds.
WindowCeiling(k) ==
    IF budgetWindowType = "schedule" THEN hourlyBudgetBytes[k % 24] ELSE budgetBytes
C3_UsageWithinBudget ==
    \A k \in Keys : 0 <= store[k].val /\ store[k].val <= WindowCeiling(k)
\* A window on which one attempt was denied and another refunded.
C3_Witness ==
    \E k \in Keys : DeniedOn(k) # {} /\ RefundedOn(k) # {}

\* C4: a debit attempt that returns Denied leaves every usage counter as it
\* was before the call.
C4_DeniedStep ==
    \A r \in Reqs :
        ReturnedDenied(r) => \A k \in Keys : store'[k].val = store[k].val
C4_DeniedLeavesUsage == [][C4_DeniedStep]_vars
\* An attempt was denied on a window holding usage while another request on
\* the same window was still in flight.
C4_Witness ==
    \E r1, r2 \in Reqs :
        /\ r1 # r2
        /\ r1 \in DeniedOn(req[r1].key)
        /\ req[r2].key = req[r1].key /\ InFlight(r2)
        /\ Usage(req[r1].key) > 0

\* The key and amount of the debit that request r was allowed.
DebitEvent(r) ==
    LET i == CHOOSE j \in 1..Len(req[r].log) : req[r].log[j].ev = "allowed"
    IN  req[r].log[i]
\* The refund step of request r: its DECRBY reached the store.
RefundApplied(r) ==
    /\ req[r].pc = "refund"
    /\ req'[r].pc = "done"
    /\ req'[r].log[Len(req[r].log) + 1].ev = "refund"

\* C5: a debit of n on k that returns Allowed adds exactly n to k's counter
\* and the refund of that request takes exactly n off the same, still
\* existing, counter, each leaving every other counter alone: between them
\* the request's net effect on usage is zero, whatever is interleaved.
C5_Step ==
    \A r \in Reqs :
        /\ ReturnedAllowed(r) =>
              \A k \in Keys :
                  store'[k].val = store[k].val
                                    + (IF k = req[r].key THEN req[r].amount ELSE 0)
        /\ RefundApplied(r) =>
              /\ store[DebitEvent(r).k].exists
              /\ \A k \in Keys :
                    store'[k].val = store[k].val
                                      - (IF k = DebitEvent(r).k THEN DebitEvent(r).n ELSE 0)
C5_RefundSymmetry == [][C5_Step]_vars
\* A request was refunded after another request was admitted on the same
\* window: what is left is the other request's amount.
C5_Witness ==
    \E r1, r2 \in Reqs :
        /\ r1 # r2
        /\ r1 \in RefundedOn(req[r1].key)
        /\ r2 \in AllowedOn(req[r1].key) \ RefundedOn(req[r1].key)
        /\ req[r2].pc = "forward"
        /\ Usage(req[r1].key) = req[r2].amount

ForwardFailed(r) == req[r].up = ForwardErr \/ req[r].up >= 300
RefundAttempts(r) == {i \in 1..Len(req[r].log) : req[r].log[i].ev \in {"refund", "refunderr"}}
Admitted(r) == Has(r, "allowed")

\* C6: a request whose debit was Allowed issues exactly one refund, on the
\* key and for the amount debited, when its forward fails (error or status
\* >= 300), and none when the forward succeeds.
C6_RefundIffForwardFailed ==
    \A r \in Reqs :
        (req[r].pc = "done" /\ Admitted(r)) =>
            IF ForwardFailed(r)
            THEN /\ Cardinality(RefundAttempts(r)) = 1
                 /\ \A i \in RefundAttempts(r) :
                       /\ req[r].log[i].k = DebitEvent(r).k
                       /\ req[r].log[i].n = DebitEvent(r).n
            ELSE RefundAttempts(r) = {}

RespondIndex(r) == CHOOSE i \in 1..Len(req[r].log) : req[r].log[i].ev = "respond"
BadGatewayClass == {502, 503, 504}

StoreErrEvent(r) ==
    LET i == CHOOSE j \in 1..Len(req[r].log) : req[r].log[j].ev = "storeerr"
    IN  req[r].log[i]
\* Request r is about to forward, or has forwarded, with no debit recorded.
ForwardsUndebited(r) ==
    (req[r].pc = "failopen" \/ Has(r, "forward")) /\ ~Admitted(r)

\* C8: a request is forwarded without a recorded debit only if its ledger
\* call failed, the fail-open rate is above zero and the sample drawn is
\* below the rate; with the rate at 0 every request whose ledger call failed
\* ends with 503 and is not forwarded.
C8_FailOpenOnlyWhenSelected ==
    /\ \A r \in Reqs :
          ForwardsUndebited(r) =>
              /\ Has(r, "storeerr")
              /\ failOpenSampleRate > 0
              /\ StoreErrEvent(r).n < failOpenSampleRate
    /\ failOpenSampleRate = 0 =>
          \A r \in Reqs :
              Has(r, "storeerr") =>
                  /\ req[r].pc = "done"
                  /\ req[r].resp = StatusServiceUnavailable
                  /\ ~Has(r, "forward")
\* The default rate 0 under main.go: the ledger call of every request failed
\* and every request was dropped with 503.
C8_Witness ==
    /\ handler = "main" /\ failOpenSampleRate = 0
    /\ \A r \in Reqs :
          /\ Has(r, "storeerr")
          /\ req[r].resp = StatusServiceUnavailable

\* C9: a request on the fail-open path changes no usage counter: the failed
\* ledger call and the fail-open forward leave the store as it is, and the
\* request records no debit and issues no refund.
C9_Step ==
    \A r \in Reqs :
        ((req[r].pc = "script" /\ req'[r].pc = "failopen")
           \/ (req[r].pc = "failopen" /\ req'[r].pc = "done")) => store' = store
C9_NoLedgerEvents ==
    \A r \in Reqs :
        (req[r].pc = "failopen" \/ (Has(r, "storeerr") /\ Has(r, "forward"))) =>
            \A i \in 1..Len(req[r].log) :
                req[r].log[i].ev \notin {"allowed", "denied", "refund", "refunderr"}
C9_FailOpenLeavesUsage == [][C9_Step]_vars /\ [](C9_NoLedgerEvents)
\* A fail-open request whose forward failed, on a window that holds the
\* usage of another, admitted request.
C9_Witness ==
    \E r1, r2 \in Reqs :
        /\ r1 # r2
        /\ Has(r1, "storeerr") /\ Has(r1, "forward")
        /\ req[r1].pc = "done" /\ req[r1].up = ForwardErr
        /\ r2 \in AllowedOn(req[r1].key)
        /\ Usage(req[r1].key) = req[r2].amount

\* C10 as claimed: a denied request gets 429, nothing at all is sent to the
\* upstream on its behalf, and no refund is issued.
C10_DeniedSendsNothing ==
    \A r \in Reqs :
        Has(r, "denied") =>
            /\ req[r].pc = "done"
            /\ req[r].resp = StatusTooManyRequests
            /\ Count(r, {"forward", "metric"}) = 0
            /\ RefundAttempts(r) = {}
\* C10 as amended: a denied request is terminal with 429, its payload is
\* never forwarded and no refund is issued; the only request sent to the
\* upstream on its behalf is the one drop metric of main.go's handler
\* (part_000 sends nothing).
C10_DeniedTerminal ==
    \A r \in Reqs :
        Has(r, "denied") =>
            /\ req[r].pc = "done"
            /\ req[r].resp = StatusTooManyRequests
            /\ ~Has(r, "forward")
            /\ RefundAttempts(r) = {}
            /\ Count(r, {"metric"}) = IF handler = "main" THEN 1 ELSE 0
\* main.go: a request denied while an admitted one holds the window; its
\* drop metric went to the upstream.
C10_Witness ==
    \E r1, r2 \in Reqs :
        /\ handler = "main"
        /\ r1 \in DeniedOn(req[r1].key)
        /\ req[r1].resp = StatusTooManyRequests
        /\ Has(r1, "metric")
        /\ r2 \in AllowedOn(req[r1].key)

\* ------------------------------------------------- the ledger on its own
\* The script as the store sees it: callers that debit the current window
\* with any amount (1200 is above the ceiling), the clock, and a failover in
\* which the promoted replica serves a key without its expiry.
LedgerAmounts == {400, 600, 1200}

LedgerInit ==
    /\ outage = NoOutage
    /\ estimation = NoEstimation
    /\ startup = Started
    /\ handler = "main"
    /\ budgetWindowType = "hourly"
    /\ failOpenSampleRate = 0
    /\ now = 0
    /\ store = [k \in Keys |-> Absent]
    /\ req = [r \in Reqs |-> IdleReq]
    /\ expired = {}

\* One run of the script on the current window's key.  The log notes what
\* PTTL says of the key as the call finds it, then the script's answer.
LedgerDebit(r) ==
    /\ MayStart(r)
    /\ \E amount \in LedgerAmounts :
          LET k == getWindowKey(now)
              res == checkBudgetLua(store, k, amount, budgetBytes, getWindowTTL, now)
          IN  /\ store' = res.store
              /\ req' = [req EXCEPT ![r] =
                     [IdleReq EXCEPT !.pc = "done", !.size = amount,
                        !.amount = amount, !.key = k, !.budget = budgetBytes,
                        !.log = <<Ev("found", k, PTTL(store, k, now)),
                                  Ev(IF res.ret = 0 THEN "denied" ELSE "allowed",
                                     k, amount)>>]]
    /\ UNCHANGED <<outage, estimation, startup, handler, budgetWindowType, failOpenSampleRate, now, expired>>

\* A store failover: a key is served on without the expiry it had.
Failover ==
    /\ \E k \in Keys :
          /\ store[k].exists
          /\ store[k].exp # NoExpiry
          /\ store' = [store EXCEPT ![k].exp = NoExpiry]
    /\ UNCHANGED <<outage, estimation, startup, handler, budgetWindowType, failOpenSampleRate, now, req, expired>>

LedgerNext ==
    \/ Tick
    \/ Failover
    \/ \E r \in Reqs : LedgerDebit(r)

LedgerSpec == LedgerInit /\ [][LedgerNext]_vars

\* The script step of caller r in LedgerSpec, and its answer.
LedgerCalled(r) == req[r].pc = "idle" /\ req'[r].pc = "done" /\ Len(req'[r].log) = 2
LedgerAllowed(r) == LedgerCalled(r) /\ req'[r].log[2].ev = "allowed"
LedgerDenied(r) == LedgerCalled(r) /\ req'[r].log[2].ev = "denied"

\* C11: when a debit attempt returns Allowed its window key has an expiry
\* armed; a key that the attempt found existing without expiry gets the expiry
\* now + TTL argument of that attempt, and an expiry found armed is kept.
C11_Step ==
    \A r \in Reqs :
        LedgerAllowed(r) =>
            LET k == req'[r].key
            IN  /\ store'[k].exists
                /\ store'[k].exp # NoExpiry
                /\ (store[k].exists /\ store[k].exp = NoExpiry)
                      => store'[k].exp = now + getWindowTTL
                /\ (store[k].exists /\ store[k].exp # NoExpiry)
                      => store'[k].exp = store[k].exp
C11_AllowedArmsExpiry == [][C11_Step]_vars
\* A later tick than the key's creation: the attempt found the key holding
\* usage without expiry, was allowed, and the expiry runs from this attempt.
C11_Witness ==
    \E r \in Reqs :
        /\ req[r].pc = "done"
        /\ req[r].log[1].ev = "found" /\ req[r].log[1].n = -1
        /\ req[r].log[2].ev = "allowed"
        /\ Usage(req[r].key) > req[r].amount
        /\ now > 0
        /\ store[req[r].key].exp = now + getWindowTTL

\* C12: a debit attempt on a window key that does not exist yet creates the
\* key with the window's TTL in the same atomic step, whether the attempt is
\* allowed or denied; and an attempt on a key that exists adds to the counter
\* it finds (nothing a peer recorded is wiped).
C12_Step ==
    \A r \in Reqs :
        LedgerCalled(r) =>
            LET k == req'[r].key
                added == IF LedgerAllowed(r) THEN req'[r].amount ELSE 0
            IN  /\ ~store[k].exists =>
                      /\ store'[k].exists
                      /\ store'[k].exp = now + getWindowTTL
                /\ store'[k].val = store[k].val + added
C12_CreatedWithTTL == [][C12_Step]_vars

\* ---------------------------------------------- the routes of the listener
\* main() registers the handlers by path.  Spec above follows the requests on
\* /v1/traces and /v1/logs that carry a body; PathSpec adds the requests with
\* an empty body and the requests on /v1/metrics, under the default
\* configuration (hourly window, fail closed).
MetricsSizes == {600}

PathInit ==
    /\ outage = NoOutage
    /\ estimation = NoEstimation
    /\ startup = Started
    /\ handler \in Handlers
    /\ budgetWindowType = "hourly"
    /\ failOpenSampleRate = 0
    /\ now = 0
    /\ store = [k \in Keys |-> Absent]
    /\ req = [r \in Reqs |-> IdleReq]
    /\ expired = {}

\* Faulty variant: main.go's handler writes 202 for the empty body and goes
\* on to the budget check instead of returning.
MainEmpty_noreturn(r) ==
    /\ handler = "main"
    /\ MayStart(r)
    /\ req' = [req EXCEPT ![r] = [IdleReq EXCEPT !.pc = "budget",
                                    !.resp = StatusAccepted,
                                    !.key = getWindowKey(now),
                                    !.log = <<Ev("empty", NoKey, 0)>>]]
    /\ UNCHANGED <<outage, estimation, startup, handler, budgetWindowType, failOpenSampleRate, now, store, expired>>

\* main.go, requestSize == 0: 202 and return.
MainEmpty(r) ==
    /\ handler = "main"
    /\ MayStart(r)
    /\ req' = [req EXCEPT ![r] =
                 Finish(IdleReq, StatusAccepted, <<Ev("empty", NoKey, 0)>>)]
    /\ UNCHANGED <<outage, estimation, startup, handler, budgetWindowType, failOpenSampleRate, now, store, expired>>

\* part_000, requestSize == 0 after the body was buffered: 202 and return.
P0Empty(r) ==
    /\ handler = "part000"
    /\ MayStart(r)
    /\ req' = [req EXCEPT ![r] =
                 Finish(IdleReq, StatusAccepted, <<Ev("empty", NoKey, 0)>>)]
    /\ UNCHANGED <<outage, estimation, startup, handler, budgetWindowType, failOpenSampleRate, now, store, expired>>

\* main.go registers handleRequest for /v1/metrics: a metrics request enters
\* the same handler as traces and logs.
MainMetricsStart(r) ==
    /\ handler = "main"
    /\ MayStart(r)
    /\ \E requestSize \in MetricsSizes :
          req' = [req EXCEPT ![r] = [IdleReq EXCEPT !.pc = "budget",
                                       !.size = requestSize,
                                       !.amount = requestSize,
                                       !.key = getWindowKey(now),
                                       !.log = <<Ev("metrics", NoKey, requestSize)>>]]
    /\ UNCHANGED <<outage, estimation, startup, handler, budgetWindowType, failOpenSampleRate, now, store, expired>>

\* part_000 registers handleMetricsPassthrough for /v1/metrics: forward, then
\* 500 on a transport error, else the upstream's status.
P0MetricsPassthrough(r) ==
    /\ handler = "part000"
    /\ MayStart(r)
    /\ \E requestSize \in MetricsSizes, outcome \in ForwardOutcomes :
          req' = [req EXCEPT ![r] =
                    Finish([IdleReq EXCEPT !.size = requestSize, !.up = outcome],
                           IF outcome = ForwardErr THEN StatusInternalServerError
                                                   ELSE outcome,
                           <<Ev("metrics", NoKey, requestSize),
                             Ev("forward", NoKey, requestSize)>>)]
    /\ UNCHANGED <<outage, estimation, startup, handler, budgetWindowType, failOpenSampleRate, now, store, expired>>

PathNext ==
    \/ Tick
    \/ \E r \in Reqs :
          \/ MainStart(r)
          \/ MainEmpty(r)
          \/ MainMetricsStart(r)
          \/ MainBudget(r)
          \/ MainScript(r)
          \/ MainForward(r)
          \/ P0Start(r)
          \/ P0Empty(r)
          \/ P0MetricsPassthrough(r)
          \/ P0Script(r)
          \/ P0Forward(r)
          \/ P0Refund(r)

PathSpec == PathInit /\ [][PathNext]_vars

LedgerEvents == {"allowed", "denied", "storeerr", "refund", "refunderr"}

\* C13: a request with a zero-byte body on a budgeted path is answered at
\* once with 202, a success status; handling it leaves the store as it is (no
\* counter changed, no key created), the request makes no ledger call and
\* nothing is sent to the upstream.
C13_Step ==
    \A r \in Reqs :
        (req[r].pc = "idle" /\ Len(req'[r].log) > 0 /\ req'[r].log[1].ev = "empty")
            => /\ store' = store
               /\ req'[r].pc = "done"
C13_EmptyAnswered ==
    \A r \in Reqs :
        Has(r, "empty") =>
            /\ req[r].pc = "done"
            /\ req[r].resp = StatusAccepted
            /\ req[r].resp >= 200 /\ req[r].resp < 300
            /\ req[r].key = NoKey
            /\ Count(r, LedgerEvents \cup {"forward", "metric"}) = 0
C13_EmptyBodyNoEffect == [][C13_Step]_vars /\ [](C13_EmptyAnswered)
\* An empty request arrived after a request that holds usage on the current
\* window and is still in flight; the usage is as the first request left it.
C13_Witness ==
    \E r1, r2 \in Reqs :
        /\ r1 < r2
        /\ r1 \in AllowedOn(req[r1].key) /\ req[r1].pc = "forward"
        /\ Has(r2, "empty") /\ req[r2].resp = StatusAccepted
        /\ Usage(req[r1].key) = req[r1].amount

\* C14: a request on the metrics path bypasses budgeting: it makes no ledger
\* call, is never answered 429 or 503 by the proxy on account of the budget
\* or the store, and once handled it has been forwarded to the upstream.
C14_MetricsBypass ==
    \A r \in Reqs :
        Has(r, "metrics") =>
            /\ Count(r, LedgerEvents) = 0
            /\ req[r].pc = "done" => Has(r, "forward")
            /\ req[r].resp \notin {StatusTooManyRequests, StatusServiceUnavailable}

\* C15: whenever a request was forwarded, on the admitted path or on the
\* fail-open path, and the upstream answered with a status below 300, the
\* status returned to the caller is the upstream's status.
C15_MirrorsUpstream ==
    \A r \in Reqs :
        (/\ req[r].pc = "done"
         /\ Has(r, "forward")
         /\ req[r].up # ForwardErr
         /\ req[r].up < 300)
            => req[r].resp = req[r].up

\* ------------------------------------------------ the window manager alone
\* getWindowKey and getWindowTTL under each policy, read at two instants of
\* a clock that runs over more than a day.
MaxInstant == 60
Instants == 0..MaxInstant
WindowPolicies == {"hourly", "daily", "schedule"}
WindowReaders == {1, 2}

WindowInit ==
    /\ outage = NoOutage
    /\ estimation = NoEstimation
    /\ startup = Started
    /\ handler = "main"
    /\ budgetWindowType \in WindowPolicies
    /\ failOpenSampleRate = 0
    /\ now \in Instants
    /\ store = [k \in Keys |-> Absent]
    /\ req = [r \in Reqs |-> IdleReq]
    /\ expired = {}

\* Time passes, by any amount.
ClockJump ==
    /\ \E t \in Instants : t > now /\ now' = t
    /\ UNCHANGED <<outage, estimation, startup, handler, budgetWindowType, failOpenSampleRate, store, req, expired>>

\* A caller derives the window key and the TTL; the log notes the instant.
ReadWindow(r) ==
    /\ r \in WindowReaders
    /\ MayStart(r)
    /\ req' = [req EXCEPT ![r] =
                 [IdleReq EXCEPT !.pc = "done", !.key = getWindowKey(now),
                    !.log = <<Ev("window", getWindowKey(now), now),
                              Ev("ttl", NoKey, getWindowTTL)>>]]
    /\ UNCHANGED <<outage, estimation, startup, handler, budgetWindowType, failOpenSampleRate, now, store, expired>>

WindowNext ==
    \/ ClockJump
    \/ \E r \in Reqs : ReadWindow(r)

WindowSpec == WindowInit /\ [][WindowNext]_vars

ReadAt(r) == req[r].log[1].n
TTLRead(r) == req[r].log[2].n
SameDateHour(t1, t2) == UTCDate(t1) = UTCDate(t2) /\ UTCHour(t1) = UTCHour(t2)
SameDate(t1, t2) == UTCDate(t1) = UTCDate(t2)

\* C16: the window key depends on the instant and the policy only: under the
\* hourly and schedule policies two instants get the same key exactly when
\* they have the same UTC date and hour, under the daily policy exactly when
\* they have the same UTC date; the TTL is one hour plus the grace for hourly
\* and schedule, 24 hours plus the grace for daily.
C16_WindowKeyAndTTL ==
    \A r1, r2 \in Reqs :
        (Has(r1, "window") /\ Has(r2, "window")) =>
            /\ (req[r1].key = req[r2].key) <=>
                  IF budgetWindowType = "daily"
                  THEN SameDate(ReadAt(r1), ReadAt(r2))
                  ELSE SameDateHour(ReadAt(r1), ReadAt(r2))
            /\ TTLRead(r1) = IF budgetWindowType = "daily"
                             THEN 24 * TicksPerHour + GraceTicks
                             ELSE TicksPerHour + GraceTicks
\* Hourly policy: hour 0 and hour 12 of one date get different keys; hour 0
\* of one date and hour 0 of the next get different keys.
C16_Witness ==
    /\ budgetWindowType = "hourly"
    /\ Has(1, "window") /\ Has(2, "window")
    /\ UTCHour(ReadAt(1)) = 0
    /\ \/ UTCHour(ReadAt(2)) = 12 /\ SameDate(ReadAt(1), ReadAt(2))
       \/ UTCHour(ReadAt(2)) = 0 /\ ~SameDate(ReadAt(1), ReadAt(2))
    /\ req[1].key # req[2].key

\* The first instant after the hour that the hourly key k names.
WindowEnd(k) == (k + 1) * TicksPerHour

\* C17: whenever the ledger arms an expiry on a window key, the expiry falls
\* after the end of the hour the key names; so a key only expires once its
\* window is over, and no debit attempt finds its key expired (and its usage
\* restarted from zero).
C17_Step ==
    /\ \A k \in Keys :
          (store'[k].exp # NoExpiry /\ store'[k].exp # store[k].exp)
              => store'[k].exp > WindowEnd(k)
    /\ \A r \in Reqs : ScriptReturned(r) => req[r].key \notin expired
C17_ExpiryAfterWindow ==
    /\ \A k \in Keys :
          (store[k].exists /\ store[k].exp # NoExpiry) => store[k].exp > WindowEnd(k)
    /\ \A k \in expired : now > WindowEnd(k)
C17_NoResetByExpiry == [][C17_Step]_vars /\ [](C17_ExpiryAfterWindow)
\* A window that took two debits has expired, after its hour was over.
C17_Witness ==
    \E k \in expired :
        /\ Cardinality(AllowedOn(k)) >= 2
        /\ getWindowKey(now) > k

\* C18: under the schedule policy the ceiling of every debit attempt is the
\* schedule table's budget of the UTC hour that the attempt's window key
\* names, also when the clock crosses an hour boundary while the request is
\* handled.
C18_CeilingOfKeyHour ==
    budgetWindowType = "schedule" =>
        \A r \in Reqs :
            (Has(r, "allowed") \/ Has(r, "denied")) =>
                req[r].budget = hourlyBudgetBytes[req[r].key % HoursPerDay]

\* ----------------------------------------------------- the schedule table
\* init() under BUDGET_WINDOW_TYPE=schedule: loadScheduleConfig reads
\* schedule.json, validateAndCalculateSchedule checks the percentages and
\* fills hourlyBudgetBytes; an error of either ends the process (log.Fatalf).
\*
\* A float64 is held exactly, as a count of 2^-52 in two limbs
\* (hi * 2^30 + lo).  The percentages of the model are >= 1 and their sums
\* are < 128, so every value met is a multiple of 2^-52 below 2^59.
Limb == 1073741824
F64(hi, lo) == [hi |-> hi, lo |-> lo]

\* encoding/json: the float64 nearest to a decimal literal, which is given in
\* tenths (42 stands for 4.2).
ParseFloat(tenths) ==
    CASE tenths = 16 -> F64(6710886, 429496730)
      [] tenths = 35 -> F64(14680064, 0)
      [] tenths = 40 -> F64(16777216, 0)
      [] tenths = 42 -> F64(17616076, 858993460)
      [] tenths = 60 -> F64(25165824, 0)
      [] tenths = 90 -> F64(37748736, 0)
      [] tenths = 139 -> F64(58300825, 644245096)
      [] tenths = 140 -> F64(58720256, 0)
      [] tenths = 141 -> F64(59139686, 429496728)

\* The float64 constants 99.9 and 100.0.
F64_99_9 == F64(419010969, 644245120)
F64_100 == F64(419430400, 0)

\* The unit in the last place of a value below 128 whose high limb is hi:
\* 2^-52 below 2, doubling with every binade.
F64Ulp(hi) ==
    IF hi < 8388608 THEN 1
    ELSE IF hi < 16777216 THEN 2
    ELSE IF hi < 33554432 THEN 4
    ELSE IF hi < 67108864 THEN 8
    ELSE IF hi < 134217728 THEN 16
    ELSE IF hi < 268435456 THEN 32
    ELSE 64

\* float64 addition: the exact sum rounded to 53 bits, ties to even.
F64Add(a, b) ==
    LET lo == a.lo + b.lo
        hi == a.hi + b.hi + lo \div Limb
        l == lo % Limb
        u == F64Ulp(hi)
        r == l % u
        down == l - r
        up == down + u
        pick == IF 2 * r < u THEN down
                ELSE IF 2 * r > u THEN up
                ELSE IF (l \div u) % 2 = 0 THEN down ELSE up
    IN  IF pick = Limb THEN F64(hi + 1, 0) ELSE F64(hi, pick)

F64Less(a, b) == a.hi < b.hi \/ (a.hi = b.hi /\ a.lo < b.lo)

\* One entry of schedule.json (HourlySchedule).
Entry(h, mb, p) == [hour |-> h, megabytes_per_hour |-> mb, total_percent |-> p]

\* Two schedules that list the hours 0..23 in order, hour h with h + 1
\* megabytes: 22 hours of 3.5 %, then 9.0 % and 14.0 %; and 22 hours of
\* 4.2 %, then 1.6 % and 6.0 %.  Both total 100.0 %.
PeakSchedule ==
    [i \in 1..24 |-> Entry(i - 1, i, IF i <= 22 THEN 35 ELSE IF i = 23 THEN 90 ELSE 140)]
FlatSchedule ==
    [i \in 1..24 |-> Entry(i - 1, i, IF i <= 22 THEN 42 ELSE IF i = 23 THEN 16 ELSE 60)]

\* What an operator may get wrong in a schedule: the entries touched (those
\* of hours 3, 5 and 23), the hours and the percentages written over them.
EditAt == {4, 6, 24}
HourEdits == {-1, 3, 24}
PercentEdits == {40, 139, 141}

RemoveAt(d, i) == SubSeq(d, 1, i - 1) \o SubSeq(d, i + 1, Len(d))
SwapAt(d, i, j) == [d EXCEPT ![i] = d[j], ![j] = d[i]]
Edits(d) ==
    LET at == EditAt \cap (1..Len(d))
    IN  {RemoveAt(d, i) : i \in at}
        \cup {Append(d, d[i]) : i \in at}
        \cup {[d EXCEPT ![i].hour = h] : i \in at, h \in HourEdits}
        \cup {[d EXCEPT ![i].total_percent = p] : i \in at, p \in PercentEdits}
        \cup {SwapAt(d, i, j) : i \in at, j \in at}

MaxEdits == 1
RECURSIVE Edited(_)
Edited(n) ==
    IF n = 0 THEN {PeakSchedule, FlatSchedule}
    ELSE LET prev == Edited(n - 1)
         IN  prev \cup UNION {Edits(d) : d \in prev}
Documents == Edited(MaxEdits)

\* MAX_TOTAL_BYTES_PER_DAY: unset, 3 (megabytes), or not a number.
DailyEnv == {"", "3", "abc"}
ParseInt(str) ==
    IF str = "3" THEN [ok |-> TRUE, value |-> 3] ELSE [ok |-> FALSE, value |-> 0]

\* loadScheduleConfig: "" or the error it returns.
loadScheduleConfig(doc) ==
    IF Len(doc) # 24 THEN "count"
    ELSE LET bad == {i \in 1..Len(doc) :
                        \/ doc[i].hour < 0
                        \/ doc[i].hour > 23
                        \/ \E j \in 1..(i - 1) : doc[j].hour = doc[i].hour}
         IN  IF bad = {} THEN ""
             ELSE LET i == CHOOSE x \in bad : \A y \in bad : x <= y
                  IN  IF doc[i].hour < 0 \/ doc[i].hour > 23 THEN "range"
                      ELSE "duplicate"

\* int64(math.Round(float64(dailyTotalBytes) * (percent / 100.0))), evaluated
\* in float64 at the values of the model (3 MB a day).
PercentBudget(dailyTotalBytes, tenths) ==
    CASE dailyTotalBytes = 3000000 /\ tenths = 16 -> 48000
      [] dailyTotalBytes = 3000000 /\ tenths = 35 -> 105000
      [] dailyTotalBytes = 3000000 /\ tenths = 40 -> 120000
      [] dailyTotalBytes = 3000000 /\ tenths = 42 -> 126000
      [] dailyTotalBytes = 3000000 /\ tenths = 60 -> 180000
      [] dailyTotalBytes = 3000000 /\ tenths = 90 -> 270000
      [] dailyTotalBytes = 3000000 /\ tenths = 139 -> 417000
      [] dailyTotalBytes = 3000000 /\ tenths = 140 -> 420000
      [] dailyTotalBytes = 3000000 /\ tenths = 141 -> 423000

\* hourlyBudgetBytes as init() leaves it when nothing was written.
NoTable == [h \in 0..23 |-> 0]

\* The budget written for one entry: from its percentage when
\* MAX_TOTAL_BYTES_PER_DAY is set, else its megabytes_per_hour, in bytes.
EntryBudget(e, env) ==
    IF env # ""
    THEN PercentBudget(ParseInt(env).value * 1000 * 1000, e.total_percent)
    ELSE e.megabytes_per_hour * 1000 * 1000

\* Faulty variant: the slot written is the entry's position, not its hour.
calculateBudgets_byindex(doc, env) ==
    [h \in 0..23 |-> EntryBudget(doc[h + 1], env)]

\* The loops hourlyBudgetBytes[h.Hour] = ... over the entries in order: slot
\* h holds the budget of the last entry whose hour is h.
calculateBudgets(doc, env) ==
    [h \in 0..23 |->
        LET at == {i \in 1..Len(doc) : doc[i].hour = h}
        IN  IF at = {} THEN 0
            ELSE EntryBudget(doc[CHOOSE x \in at : \A y \in at : y <= x], env)]

\* validateAndCalculateSchedule once totalPercent is summed: the error it
\* returns ("" for none) and the table it leaves.
validateAndCalculateSchedule(doc, env, totalPercent) ==
    IF F64Less(totalPercent, F64_99_9) \/ F64Less(F64_100, totalPercent)
    THEN [err |-> "percent", table |-> NoTable]
    ELSE IF env # "" /\ ~ParseInt(env).ok
    THEN [err |-> "env", table |-> NoTable]
    ELSE [err |-> "", table |-> calculateBudgets(doc, env)]

\* init() is about to load a schedule document, with an environment.
ScheduleInit ==
    /\ outage = NoOutage
    /\ estimation = NoEstimation
    /\ startup \in [pc : {"init"}, doc : Documents, env : DailyEnv,
                    summed : {0}, totalPercent : {F64(0, 0)},
                    table : {NoTable}, err : {""}]
    /\ handler = "main"
    /\ budgetWindowType = "schedule"
    /\ failOpenSampleRate = 0
    /\ now = 0
    /\ store = [k \in Keys |-> Absent]
    /\ req = [r \in Reqs |-> IdleReq]
    /\ expired = {}

\* loadScheduleConfig, and log.Fatalf on its error.
LoadSchedule ==
    /\ startup.pc = "init"
    /\ LET err == loadScheduleConfig(startup.doc)
       IN  startup' = IF err = "" THEN [startup EXCEPT !.pc = "summing"]
                      ELSE [startup EXCEPT !.pc = "fatal", !.err = err]
    /\ UNCHANGED <<outage, estimation, handler, budgetWindowType, failOpenSampleRate, now, store, req, expired>>

\* One turn of the loop totalPercent += h.TotalPercent, in entry order.
SumPercent ==
    /\ startup.pc = "summing"
    /\ startup.summed < Len(startup.doc)
    /\ startup' = [startup EXCEPT
          !.summed = startup.summed + 1,
          !.totalPercent =
              F64Add(startup.totalPercent,
                     ParseFloat(startup.doc[startup.summed + 1].total_percent))]
    /\ UNCHANGED <<outage, estimation, handler, budgetWindowType, failOpenSampleRate, now, store, req, expired>>

\* The rest of validateAndCalculateSchedule, and log.Fatalf on its error.
ValidateSchedule ==
    /\ startup.pc = "summing"
    /\ startup.summed = Len(startup.doc)
    /\ LET res == validateAndCalculateSchedule(startup.doc, startup.env,
                                               startup.totalPercent)
       IN  startup' = IF res.err = ""
                      THEN [startup EXCEPT !.pc = "serving", !.table = res.table]
                      ELSE [startup EXCEPT !.pc = "fatal", !.err = res.err]
    /\ UNCHANGED <<outage, estimation, handler, budgetWindowType, failOpenSampleRate, now, store, req, expired>>

ScheduleNext == LoadSchedule \/ SumPercent \/ ValidateSchedule

ScheduleSpec == ScheduleInit /\ [][ScheduleNext]_vars

\* The total of a schedule's percentages in tenths, and whether every hour
\* 0..23 has exactly one entry.
RECURSIVE TotalTenths(_, _)
TotalTenths(doc, n) ==
    IF n = 0 THEN 0 ELSE TotalTenths(doc, n - 1) + doc[n].total_percent
HoursOnce(doc) ==
    \A h \in 0..23 : Cardinality({i \in 1..Len(doc) : doc[i].hour = h}) = 1
ScheduleDecided == startup.pc \in {"serving", "fatal"}

\* C19: loading and validating the schedule succeeds exactly when it has 24
\* entries, every hour 0..23 exactly once, and percentages that total a value
\* in [99.9, 100.0] (so a removed, duplicated or out-of-range hour, or a
\* total of 90 %, fails); when it fails the process does not start.
C19_ValidIff ==
    ScheduleDecided =>
        (startup.pc = "serving" <=>
            /\ Len(startup.doc) = 24
            /\ HoursOnce(startup.doc)
            /\ TotalTenths(startup.doc, Len(startup.doc)) \in 999..1000)

\* The entry of a validated schedule whose hour field is h.
EntryOfHour(doc, h) == doc[CHOOSE i \in 1..Len(doc) : doc[i].hour = h]
\* round(total * percent / 100) for a percentage given in tenths.
RoundedShare(total, tenths) == (2 * total * tenths + 1000) \div 2000

\* C20 as claimed: after a successful validation budget[h] is
\* round(totalDailyBytes * percent[h] / 100) in percentage mode and the
\* entry's own per-hour value, verbatim, in static mode, each slot h from the
\* entry whose hour is h.
C20_TableAsClaimed ==
    startup.pc = "serving" =>
        \A h \in 0..23 :
            LET e == EntryOfHour(startup.doc, h)
            IN  startup.table[h] =
                    IF startup.env # ""
                    THEN RoundedShare(ParseInt(startup.env).value * 1000000,
                                      e.total_percent)
                    ELSE e.megabytes_per_hour
\* C20 as amended: after a successful validation budget[h] is
\* round(totalDailyBytes * percent[h] / 100) in percentage mode, where
\* totalDailyBytes is 1,000,000 times the megabytes of
\* MAX_TOTAL_BYTES_PER_DAY, and 1,000,000 times the entry's
\* megabytes_per_hour in static mode; each slot h is written from the entry
\* whose hour is h, whatever the order of the entries.
C20_TableFromEntries ==
    startup.pc = "serving" =>
        \A h \in 0..23 :
            LET e == EntryOfHour(startup.doc, h)
            IN  startup.table[h] =
                    IF startup.env # ""
                    THEN RoundedShare(ParseInt(startup.env).value * 1000000,
                                      e.total_percent)
                    ELSE e.megabytes_per_hour * 1000000
\* Percentage mode, the entries of hours 3 and 23 in each other's place:
\* 3.5 % and 14.0 % of 3 MB are in the slots 3 and 23.
C20_Witness ==
    /\ startup.pc = "serving"
    /\ startup.env = "3"
    /\ startup.doc[24].hour = 3 /\ startup.doc[4].hour = 23
    /\ startup.table[3] = 105000
    /\ startup.table[23] = 420000

\* ================================================== hydration estimator
\* The repository holds four estimators of the stored ("hydrated") size of
\* an uncompressed OTLP/JSON payload: EstimateHydratedSize in its expansion
\* form (estimator.go:28) and in its compact-attribute form
\* (estimator.go:169), EstimateAll (estimator.go:246) and EstimateLogs
\* (part_004).  EstimatorSpec gives one payload to one of them.
\*
\* A payload is modelled by its structure; every length the estimators read
\* (len(bodyBytes), len of a json.RawMessage) is the byte length of the
\* payload's JSON text without insignificant whitespace.

\* ------------------------------------------------------- bounds
\* Scope groups of one resource.
MaxScopes == 2

wrapperOverhead == 70
headerConst == 140

RECURSIVE SumTo(_, _)
SumTo(lens, n) == IF n = 0 THEN 0 ELSE lens[n] + SumTo(lens, n - 1)

\* Byte length of a JSON array whose elements have the lengths `lens`.
JSONArray(lens) ==
    2 + SumTo(lens, Len(lens)) + (IF Len(lens) > 0 THEN Len(lens) - 1 ELSE 0)

\* Sample doubles by their wire text: the text's length and the length of
\* fmt.Sprint of the parsed float64 (0.5 -> "0.5", 100.0 -> "100",
\* 1e21 -> "1e+21").
DoubleTexts == {"0.5", "100.0", "1e21"}
TextLen(text) == CASE text = "0.5" -> 3 [] text = "100.0" -> 5 [] text = "1e21" -> 4
SprintLen(text) == CASE text = "0.5" -> 3 [] text = "100.0" -> 3 [] text = "1e21" -> 5

\* OtelAttribute: key and klen = len(key); exactly one of the four value fields is
\* set.  A string or int value is given by the length of its text.
StringAttr(key, klen, vlen) ==
    [key |-> key, klen |-> klen, kind |-> "stringValue", value |-> vlen]
IntAttr(key, klen, vlen) ==
    [key |-> key, klen |-> klen, kind |-> "intValue", value |-> vlen]
BoolAttr(key, klen, b) ==
    [key |-> key, klen |-> klen, kind |-> "boolValue", value |-> b]
DoubleAttr(key, klen, text) ==
    [key |-> key, klen |-> klen, kind |-> "doubleValue", value |-> text]

\* {"key":"K","value":{"stringValue":"V"}} and its three siblings.
AttrLen(attr) ==
    CASE attr.kind = "stringValue" -> 37 + attr.klen + attr.value
      [] attr.kind = "intValue" -> 34 + attr.klen + attr.value
      [] attr.kind = "boolValue" -> 33 + attr.klen + (IF attr.value THEN 4 ELSE 5)
      [] attr.kind = "doubleValue" -> 35 + attr.klen + TextLen(attr.value)

\* An attribute block: the value of an "attributes" member, or no member.
NoBlock == [present |-> FALSE, attrs |-> <<>>]
Block(attrs) == [present |-> TRUE, attrs |-> attrs]
EmptyBlock == Block(<<>>)
\* service.name = "checkout"
ServiceBlock == Block(<<StringAttr("service.name", 12, 8)>>)
\* One attribute of each kind.
MixedBlock ==
    Block(<<StringAttr("telemetry", 9, 4), IntAttr("port", 4, 3),
            BoolAttr("debug", 5, FALSE), DoubleAttr("ratio", 5, "100.0")>>)
\* The resource attributes of a Kubernetes workload: 30 short string
\* attributes.
LargeKeys ==
    <<"k01", "k02", "k03", "k04", "k05", "k06", "k07", "k08", "k09", "k10",
      "k11", "k12", "k13", "k14", "k15", "k16", "k17", "k18", "k19", "k20",
      "k21", "k22", "k23", "k24", "k25", "k26", "k27", "k28", "k29", "k30">>
LargeBlock == Block([i \in 1..30 |-> StringAttr(LargeKeys[i], 3, 1)])

\* len(rs.Resource.Attributes) / len(ss.Scope.Attributes): the RawMessage of
\* a missing member is empty.
BlockLen(b) ==
    IF b.present THEN JSONArray([i \in 1..Len(b.attrs) |-> AttrLen(b.attrs[i])])
    ELSE 0

\* Records.  A span {"traceId":T,"spanId":S,"name":N,"kind":2} with a
\* 32-digit trace id, a 16-digit span id and the name "GET"; a log record
\* {} and a metric, by their byte lengths.
GetSpan ==
    [traceId |-> 32, spanId |-> 16, name |-> 3, kind |-> 2,
     attributes |-> NoBlock]
SpanLen(span) ==
    (IF span.attributes.present THEN 59 + BlockLen(span.attributes) ELSE 45)
    + span.traceId + span.spanId + span.name
LogLen == 2
MetricLen == 50

ResourceBlocks == {NoBlock, ServiceBlock, LargeBlock}
ScopeBlocks == {EmptyBlock, MixedBlock}
ScopeGroups ==
    [attributes : ScopeBlocks,
     spans : {<<>>, <<GetSpan>>},
     logs : {<<>>, <<LogLen, LogLen>>},
     metrics : {<<>>, <<MetricLen>>}]

RECURSIVE SeqsUpTo(_, _)
SeqsUpTo(S, n) ==
    IF n = 0 THEN {<<>>}
    ELSE LET shorter == SeqsUpTo(S, n - 1)
         IN  shorter \cup {Append(s, x) : s \in shorter, x \in S}

Resources == [attributes : ResourceBlocks, scopeSpans : SeqsUpTo(ScopeGroups, MaxScopes)]
\* A second resource in the same payload: one group of one span.
SecondResources ==
    {[attributes |-> ServiceBlock,
      scopeSpans |-> <<[attributes |-> EmptyBlock, spans |-> <<GetSpan>>,
                        logs |-> <<>>, metrics |-> <<>>]>>]}

\* {"scope":{"attributes":B},"spans":[..],"logs":[..],"metrics":[..]}
ScopeLen(ss) ==
    (IF ss.attributes.present THEN 53 + BlockLen(ss.attributes) ELSE 40)
    + JSONArray([i \in 1..Len(ss.spans) |-> SpanLen(ss.spans[i])])
    + JSONArray(ss.logs) + JSONArray(ss.metrics)

\* {"resource":{"attributes":B},"scopeSpans":[..]}
ResourceLen(rs) ==
    (IF rs.attributes.present THEN 42 + BlockLen(rs.attributes) ELSE 29)
    + JSONArray([j \in 1..Len(rs.scopeSpans) |-> ScopeLen(rs.scopeSpans[j])])

\* Payloads.  "malformed": bytes that are not JSON (none, or "not json!");
\* "scalar": {"resourceSpans":5}; "traces": {"resourceSpans":[..]};
\* "logs": {"resourceLogs":[{"scopeLogs":[{"logRecords":[..]}]}]}.
Malformed(n) == [form |-> "malformed", raw |-> n]
Scalar == [form |-> "scalar", raw |-> 19]
Traces(rss) ==
    [form |-> "traces", resourceSpans |-> rss,
     raw |-> 18 + JSONArray([i \in 1..Len(rss) |-> ResourceLen(rss[i])])]
Logs(records) ==
    [form |-> "logs", logRecords |-> records,
     raw |-> 50 + JSONArray(records)]

Payloads ==
    {Malformed(0), Malformed(9), Scalar}
    \cup {Logs(records) : records \in {<<>>, <<LogLen>>, <<LogLen, MetricLen>>}}
    \cup {Traces(<<>>)}
    \cup {Traces(<<rs>>) : rs \in Resources}
    \cup {Traces(<<rs, second>>) : rs \in Resources, second \in SecondResources}

\* ------------------------------------------------------- the estimators
\* json.Unmarshal into the envelope of EstimateHydratedSize and of
\* EstimateAll (resourceSpans must be an array) fails on bytes that are not
\* JSON and on a resourceSpans member that is not an array; the envelope of
\* EstimateLogs has no resourceSpans member and ignores it.
UnmarshalFails(p) == p.form \in {"malformed", "scalar"}
UnmarshalLogsFails(p) == p.form = "malformed"

ResourceSpans(p) == IF p.form = "traces" THEN p.resourceSpans ELSE <<>>
LogRecords(p) == IF p.form = "logs" THEN p.logRecords ELSE <<>>

\* float64(adj) / float64(raw), kept as the quotient of the two integers;
\* the literal 1.0 is One.  For integers below 2^53 the quotient is the
\* double 1.0 exactly when the two are equal.
One == [num |-> 1, den |-> 1]
Quotient(adj, raw) == IF raw > 0 THEN [num |-> adj, den |-> raw] ELSE One
IsOne(factor) == factor.num = factor.den

\* What a parse failure returns in EstimateHydratedSize.
Fallback(raw) == [raw |-> raw, factor |-> One, adj |-> raw + headerConst, rows |-> 0]

\* The scope groups of a payload in document order, each with its resource:
\* the two nested loops of the estimators.
RECURSIVE GroupsTo(_, _)
GroupsTo(rss, n) ==
    IF n = 0 THEN <<>>
    ELSE GroupsTo(rss, n - 1) \o
         [j \in 1..Len(rss[n].scopeSpans) |->
             [rs |-> rss[n], ss |-> rss[n].scopeSpans[j]]]
Groups(rss) == GroupsTo(rss, Len(rss))
\* The running total of the loops over one cost per scope group.
OverGroups(costs) == SumTo(costs, Len(costs))

\* estimator.go:28, the expansion form: every record is charged the wire
\* size of its resource and scope attribute blocks and a wrapper.
ExpansionRows(ss) == Len(ss.spans) + Len(ss.logs) + Len(ss.metrics)
ExpansionDup(rs, ss) ==
    (BlockLen(rs.attributes) + BlockLen(ss.attributes) + wrapperOverhead)
    * ExpansionRows(ss)
ExpansionRowsOf(rs, ss) == ExpansionRows(ss)

EstimateHydratedSizeExpansion(p) ==
    IF UnmarshalFails(p) THEN Fallback(p.raw)
    ELSE LET dupBytes == OverGroups([g \in DOMAIN Groups(ResourceSpans(p)) |->
        ExpansionDup(Groups(ResourceSpans(p))[g].rs, Groups(ResourceSpans(p))[g].ss)])
             adj == p.raw + dupBytes + headerConst
         IN  [raw |-> p.raw, factor |-> Quotient(adj, p.raw), adj |-> adj,
              rows |-> OverGroups([g \in DOMAIN Groups(ResourceSpans(p)) |->
        ExpansionRowsOf(Groups(ResourceSpans(p))[g].rs, Groups(ResourceSpans(p))[g].ss)])]

\* estimator.go:121.  The size of one value in the compact map.
CompactValueSize(attr) ==
    CASE attr.kind = "stringValue" -> attr.value + 2
      [] attr.kind = "intValue" -> attr.value
      [] attr.kind = "boolValue" -> IF attr.value THEN 4 ELSE 5
      [] attr.kind = "doubleValue" -> SprintLen(attr.value)

getCompactAttributeSize(rawAttrs) ==
    IF BlockLen(rawAttrs) <= 2 THEN 0
    ELSE IF Len(rawAttrs.attrs) = 0 THEN 0
    ELSE SumTo([i \in 1..Len(rawAttrs.attrs) |->
                   rawAttrs.attrs[i].klen + 3
                   + CompactValueSize(rawAttrs.attrs[i]) + 1],
               Len(rawAttrs.attrs)) - 1

\* estimator.go:169, the compact form.
rowCount(ss) == Len(ss.spans) + Len(ss.logs)
RowsOf(rs, ss) == rowCount(ss)
\* What one scope group takes from bodiesOnlySize and adds to dupBytes.
Subtracted(rs, ss) ==
    IF rowCount(ss) > 0 THEN BlockLen(rs.attributes) + BlockLen(ss.attributes)
    ELSE 0
perRowOverhead(rs, ss) ==
    getCompactAttributeSize(rs.attributes) + getCompactAttributeSize(ss.attributes)
Duplicated(rs, ss) ==
    IF rowCount(ss) > 0 THEN perRowOverhead(rs, ss) * rowCount(ss) ELSE 0

bodiesOnlySize(p) == p.raw - OverGroups([g \in DOMAIN Groups(ResourceSpans(p)) |->
        Subtracted(Groups(ResourceSpans(p))[g].rs, Groups(ResourceSpans(p))[g].ss)])
dupBytes(p) == OverGroups([g \in DOMAIN Groups(ResourceSpans(p)) |->
        Duplicated(Groups(ResourceSpans(p))[g].rs, Groups(ResourceSpans(p))[g].ss)])

EstimateHydratedSize(p) ==
    IF UnmarshalFails(p) THEN Fallback(p.raw)
    ELSE LET adj == bodiesOnlySize(p) + dupBytes(p) + headerConst
         IN  [raw |-> p.raw, factor |-> Quotient(adj, p.raw), adj |-> adj,
              rows |-> OverGroups([g \in DOMAIN Groups(ResourceSpans(p)) |->
        RowsOf(Groups(ResourceSpans(p))[g].rs, Groups(ResourceSpans(p))[g].ss)])]

\* part_004: the log records as they are, nothing added.
EstimateLogs(p) ==
    IF UnmarshalLogsFails(p)
    THEN [raw |-> p.raw, factor |-> One, adj |-> p.raw, rows |-> 0]
    ELSE LET adj == SumTo(LogRecords(p), Len(LogRecords(p)))
         IN  [raw |-> p.raw, factor |-> Quotient(adj, p.raw), adj |-> adj,
              rows |-> Len(LogRecords(p))]

\* estimator.go:408.  A map[string]string is the set of its entries, each
\* with the lengths of its key and of its value; of two attributes with the
\* same key the later one stays.
FormatFloatLen(text) == CASE text = "0.5" -> 3 [] text = "100.0" -> 3 [] text = "1e21" -> 22
ParsedValueLen(attr) ==
    CASE attr.kind = "stringValue" -> attr.value
      [] attr.kind = "intValue" -> attr.value
      [] attr.kind = "boolValue" -> IF attr.value THEN 4 ELSE 5
      [] attr.kind = "doubleValue" -> FormatFloatLen(attr.value)
MapEntry(key, klen, vlen) == [key |-> key, klen |-> klen, vlen |-> vlen]

parseAttributes(raw) ==
    IF BlockLen(raw) <= 2 THEN {}
    ELSE {MapEntry(raw.attrs[i].key, raw.attrs[i].klen, ParsedValueLen(raw.attrs[i])) :
            i \in {i \in 1..Len(raw.attrs) :
                     \A j \in (i + 1)..Len(raw.attrs) : raw.attrs[j].key # raw.attrs[i].key}}

mergeMaps(m1, m2) ==
    m2 \cup {e \in m1 : \A e2 \in m2 : e2.key # e.key}

\* len(json.Marshal(m)) of a map of plain strings: {"k":"v","k":"v"}.
RECURSIVE EntriesLen(_)
EntriesLen(m) ==
    IF m = {} THEN 0
    ELSE LET e == CHOOSE x \in m : TRUE
         IN  e.klen + e.vlen + 5 + EntriesLen(m \ {e})
MapLen(m) == 2 + EntriesLen(m) + (IF m = {} THEN 0 ELSE Cardinality(m) - 1)

\* len(kindToString(kind))
kindToString(kind) ==
    CASE kind \in {2, 3} -> 6
      [] kind \in {1, 4, 5} -> 8
      [] OTHER -> 11

\* Digits of time.Now().UnixMilli() and of the same in nanoseconds.
MilliDigits == 13
NanoDigits == 19
\* The keys EstimateSpans moves from the span's attributes to JaegerTag.
MovedKeys == {"deployment.environment.name", "net.peer.name", "net.peer.port"}

\* estimator.go:343-402: the stored size of one span, len(jaegerBytes) + 55.
\* The scope groups of the payloads carry no name and no version.
JaegerSpanSize(rs, ss, span) ==
    LET resAttrs == parseAttributes(rs.attributes)
        scopeAttrs == parseAttributes(ss.attributes)
        spanAttrs == parseAttributes(span.attributes)
        moved == {e \in spanAttrs : e.key \in MovedKeys}
        jaegerTag == {MapEntry("otel.library.name", 17, 0),
                      MapEntry("otel.library.version", 20, 0),
                      MapEntry("span.kind", 9, kindToString(span.kind))}
                     \cup moved
        serviceName == {e \in resAttrs : e.key = "service.name"}
        serviceNameLen == IF serviceName = {} THEN 0
                          ELSE (CHOOSE e \in serviceName : TRUE).vlen
    IN  218 + span.traceId + span.spanId + span.name + serviceNameLen
        + MapLen(mergeMaps(resAttrs, scopeAttrs))
        + MapLen(spanAttrs \ moved) + MapLen(jaegerTag)
        + NanoDigits + MilliDigits + MilliDigits
        + 55

\* estimator.go:329
SpansOfGroup(rs, ss) ==
    SumTo([i \in 1..Len(ss.spans) |-> JaegerSpanSize(rs, ss, ss.spans[i])],
          Len(ss.spans))
SpanCountOfGroup(rs, ss) == Len(ss.spans)

\* estimator.go:246.  Each element of resourceSpans goes to EstimateSpans and
\* to EstimateLogs; to EstimateLogs it is an object without a resourceLogs
\* member, so logSize and logCount are 0.
EstimateAll(p) ==
    IF UnmarshalFails(p)
    THEN [raw |-> p.raw, factor |-> One, adj |-> p.raw,
          spanCount |-> 0, logCount |-> 0]
    ELSE LET totalAdjusted == OverGroups([g \in DOMAIN Groups(ResourceSpans(p)) |->
        SpansOfGroup(Groups(ResourceSpans(p))[g].rs, Groups(ResourceSpans(p))[g].ss)])
         IN  [raw |-> p.raw, factor |-> Quotient(totalAdjusted, p.raw),
              adj |-> totalAdjusted,
              spanCount |-> OverGroups([g \in DOMAIN Groups(ResourceSpans(p)) |->
        SpanCountOfGroup(Groups(ResourceSpans(p))[g].rs, Groups(ResourceSpans(p))[g].ss)]),
              logCount |-> 0]

\* ------------------------------------------------------- EstimatorSpec
Estimators == {"EstimateHydratedSizeExpansion", "EstimateHydratedSize",
               "EstimateAll", "EstimateLogs"}

EstimatorInit ==
    /\ outage = NoOutage
    /\ estimation \in [pc : {"called"}, estimator : Estimators, payload : Payloads]
    /\ startup = Started
    /\ handler = "part000"
    /\ budgetWindowType = "hourly"
    /\ failOpenSampleRate = 0
    /\ now = 0
    /\ store = [k \in Keys |-> Absent]
    /\ req = [r \in Reqs |-> IdleReq]
    /\ expired = {}

Return(result) ==
    /\ estimation' = [pc |-> "returned", estimator |-> estimation.estimator,
                      payload |-> estimation.payload, result |-> result]
    /\ UNCHANGED <<outage, startup, handler, budgetWindowType,
                   failOpenSampleRate, now, store, req, expired>>

CallExpansion ==
    /\ estimation.pc = "called"
    /\ estimation.estimator = "EstimateHydratedSizeExpansion"
    /\ Return(EstimateHydratedSizeExpansion(estimation.payload))

CallCompact ==
    /\ estimation.pc = "called"
    /\ estimation.estimator = "EstimateHydratedSize"
    /\ Return(EstimateHydratedSize(estimation.payload))

CallEstimateAll ==
    /\ estimation.pc = "called"
    /\ estimation.estimator = "EstimateAll"
    /\ Return(EstimateAll(estimation.payload))

CallEstimateLogs ==
    /\ estimation.pc = "called"
    /\ estimation.estimator = "EstimateLogs"
    /\ Return(EstimateLogs(estimation.payload))

EstimatorNext ==
    CallExpansion \/ CallCompact \/ CallEstimateAll \/ CallEstimateLogs

EstimatorSpec == EstimatorInit /\ [][EstimatorNext]_vars

\* ------------------------------------------------- estimator properties
Returned == estimation.pc = "returned"
\* The estimator that ran could not parse its payload.
Unparsed ==
    IF estimation.estimator = "EstimateLogs"
    THEN UnmarshalLogsFails(estimation.payload)
    ELSE UnmarshalFails(estimation.payload)

\* C21: an estimator that cannot parse its payload returns without failing,
\* with adjustedBytes = rawBytes + the fixed header overhead and
\* expansionFactor = 1.0.
C21_FallbackEstimate ==
    (Returned /\ Unparsed) =>
        /\ estimation.result.adj = estimation.payload.raw + headerConst
        /\ IsOne(estimation.result.factor)

\* The compact form of EstimateHydratedSize returned an estimate of a
\* payload it parsed.
CompactParsed ==
    /\ Returned
    /\ estimation.estimator = "EstimateHydratedSize"
    /\ ~Unparsed

\* The wire sizes of the shared attribute blocks of a payload, each block
\* once: one per resource and one per scope group.
ScopeBlockLen(rs, ss) == BlockLen(ss.attributes)
SharedBlocks(rss) ==
    SumTo([i \in 1..Len(rss) |-> BlockLen(rss[i].attributes)], Len(rss))
    + OverGroups([g \in DOMAIN Groups(rss) |->
        ScopeBlockLen(Groups(rss)[g].rs, Groups(rss)[g].ss)])
\* The compact footprint of a group's attributes times its records.
Footprints(rs, ss) == perRowOverhead(rs, ss) * rowCount(ss)

\* C22: for a parseable payload, adjustedBytes = (raw - the wire sizes of
\* the shared attribute blocks, each block subtracted once) + the sum over
\* the groups of (compact footprint * records of the group) + the fixed
\* overhead.
C22_AdjustedFormula ==
    CompactParsed =>
        estimation.result.adj =
            (estimation.payload.raw - SharedBlocks(ResourceSpans(estimation.payload)))
            + OverGroups([g \in DOMAIN Groups(ResourceSpans(estimation.payload)) |->
        Footprints(Groups(ResourceSpans(estimation.payload))[g].rs, Groups(ResourceSpans(estimation.payload))[g].ss)])
            + headerConst

\* Either form of EstimateHydratedSize returned.
HydratedReturned ==
    /\ Returned
    /\ estimation.estimator \in {"EstimateHydratedSize", "EstimateHydratedSizeExpansion"}

NoRecords(rs, ss) == IF ExpansionRows(ss) = 0 THEN 0 ELSE 1
\* Every scope group of the payload has zero records.
AllGroupsIdle(p) == OverGroups([g \in DOMAIN Groups(ResourceSpans(p)) |->
        NoRecords(Groups(ResourceSpans(p))[g].rs, Groups(ResourceSpans(p))[g].ss)]) = 0
\* Groups that have records and an attribute block that is not empty.
Replicating(rs, ss) ==
    IF ExpansionRows(ss) > 0 /\ (BlockLen(rs.attributes) > 2 \/ BlockLen(ss.attributes) > 2)
    THEN 1 ELSE 0
\* The duplication cost in a returned estimate: what was added to the size
\* of the bodies and the fixed overhead.
DupCost ==
    estimation.result.adj - headerConst
    - (IF estimation.estimator = "EstimateHydratedSize"
       THEN bodiesOnlySize(estimation.payload) ELSE estimation.payload.raw)

C23_EmptyPayload ==
    (HydratedReturned /\ estimation.payload.raw = 0) =>
        estimation.result.adj = headerConst /\ IsOne(estimation.result.factor)
C23_NoRecords ==
    (HydratedReturned /\ ~Unparsed /\ AllGroupsIdle(estimation.payload)) =>
        estimation.result.adj =
            estimation.payload.raw
            - SharedBlocks(ResourceSpans(estimation.payload)) + headerConst
C23_NoDuplication ==
    (HydratedReturned /\ ~Unparsed
     /\ OverGroups([g \in DOMAIN Groups(ResourceSpans(estimation.payload)) |->
        Replicating(Groups(ResourceSpans(estimation.payload))[g].rs, Groups(ResourceSpans(estimation.payload))[g].ss)]) = 0) =>
        DupCost = 0

\* C23: an empty payload yields adjustedBytes = the fixed overhead and
\* factor 1.0; a payload whose groups all have zero records yields
\* raw - (shared-block wire sizes) + the fixed overhead; groups with zero
\* records or with empty attribute blocks add no duplication cost.
C23_DegenerateCases ==
    C23_EmptyPayload /\ C23_NoRecords /\ C23_NoDuplication

\* The payload with one more span, or one more log record, in group j of
\* resource i.
WithSpan(p, i, j) ==
    Traces([p.resourceSpans EXCEPT ![i].scopeSpans[j].spans = Append(@, GetSpan)])
WithLog(p, i, j) ==
    Traces([p.resourceSpans EXCEPT ![i].scopeSpans[j].logs = Append(@, LogLen)])
\* The estimate of q exceeds the one returned for the payload by the
\* footprint of group j of resource i plus the bytes the record added.
GrowsByFootprint(q, i, j) ==
    LET p == estimation.payload
        rs == p.resourceSpans[i]
        delta == EstimateHydratedSize(q).adj - estimation.result.adj
    IN  /\ delta > 0
        /\ delta = perRowOverhead(rs, rs.scopeSpans[j]) + (q.raw - p.raw)

\* C24: adding one record to any group of a payload, a group without
\* records included, raises adjustedBytes by exactly the group's compact
\* attribute footprint plus the bytes of the new record.
C24_Monotone ==
    CompactParsed =>
        \A i \in 1..Len(ResourceSpans(estimation.payload)) :
            \A j \in 1..Len(estimation.payload.resourceSpans[i].scopeSpans) :
                /\ GrowsByFootprint(WithSpan(estimation.payload, i, j), i, j)
                /\ GrowsByFootprint(WithLog(estimation.payload, i, j), i, j)

\* C25: the estimator's running body size never goes below zero and the
\* returned adjustedBytes is >= 0.  bodiesOnlySize only ever decreases
\* during the loop, so its final value is its lowest.
C25_NeverNegative ==
    Returned =>
        /\ estimation.result.adj >= 0
        /\ (estimation.estimator = "EstimateHydratedSize" /\ ~Unparsed) =>
               bodiesOnlySize(estimation.payload) >= 0

\* The records of every signal kind in a payload.
TotalRecords(p) ==
    OverGroups([g \in DOMAIN Groups(ResourceSpans(p)) |->
        ExpansionRowsOf(Groups(ResourceSpans(p))[g].rs, Groups(ResourceSpans(p))[g].ss)]) + Len(LogRecords(p))

\* The payload has the top-level member the estimator reads.
ReadsItsForm ==
    estimation.payload.form =
        (IF estimation.estimator = "EstimateLogs" THEN "logs" ELSE "traces")

\* C26: the rowCount an estimator returns is the number of records of every
\* signal kind in the payload (spans, log records, metric points) over all
\* resources and scopes.
C26_RowCount ==
    (Returned /\ estimation.estimator # "EstimateAll" /\ ReadsItsForm) =>
        estimation.result.rows = TotalRecords(estimation.payload)

\* ====================================== outages and client disconnects
\* OutageSpec runs the handlers against a store or an upstream that may
\* never reply, with clients that may disconnect at any point of their
\* request.  Each goroutine keeps running: what it waits for either replies
\* or is given up by a timeout (go-redis, http.Client) or by the cancelled
\* request context, which is the weak fairness of the handlers' steps.
OutageInit ==
    /\ outage \in [store : BOOLEAN, upstream : BOOLEAN, gone : {{}}]
    /\ estimation = NoEstimation
    /\ startup = Started
    /\ handler \in Handlers
    /\ budgetWindowType = "hourly"
    /\ failOpenSampleRate \in IF handler = "main" THEN RatePercents ELSE {0}
    /\ now = 0
    /\ store = [k \in Keys |-> Absent]
    /\ req = [r \in Reqs |-> IdleReq]
    /\ expired = {}

\* The client of an unanswered request closes its connection: net/http
\* cancels the request's context.  Only forwardRequest runs under that
\* context (the store calls run under the package's background context), so
\* the disconnect is placed where it has an effect: before the forward
\* returns.
ClientDisconnect(r) ==
    /\ req[r].pc \in {"forward", "failopen"}
    /\ r \notin outage.gone
    /\ outage' = [outage EXCEPT !.gone = @ \cup {r}]
    /\ UNCHANGED <<estimation, startup, handler, budgetWindowType,
                   failOpenSampleRate, now, store, req, expired>>

\* The steps of the goroutine of request r after its start.
HandlerStep(r) ==
    \/ MainBudget(r)
    \/ MainScript(r)
    \/ MainForward(r)
    \/ MainFailOpenForward(r)
    \/ P0Script(r)
    \/ P0Forward(r)
    \/ P0Refund(r)

OutageNext ==
    \E r \in Reqs :
        \/ MainStart(r)
        \/ P0Start(r)
        \/ ClientDisconnect(r)
        \/ MainBudget(r)
        \/ MainScript(r)
        \/ MainForward(r)
        \/ MainFailOpenForward(r)
        \/ P0Script(r)
        \/ P0Forward(r)
        \/ P0Refund(r)

OutageSpec ==
    OutageInit /\ [][OutageNext]_vars /\ \A r \in Reqs : WF_vars(HandlerStep(r))

\* The forward of request r completed with a status below 300.
Delivered(r) ==
    Has(r, "forward") /\ req[r].up # ForwardErr /\ req[r].up < 300

\* C27: every request whose debit returned Allowed eventually ends either
\* with its forward completed with a status < 300 or with a refund of the
\* debit attempted, never both and never neither; also when its client
\* disconnects or the forward is cancelled after the debit.
C27_DeliveredOrRefunded ==
    \A r \in Reqs :
        Admitted(r) ~> (/\ req[r].pc = "done"
                        /\ Delivered(r) # (RefundAttempts(r) # {}))

\* No request holding window key k is in flight.
Quiescent(k) == \A r \in Reqs : req[r].key = k => req[r].pc = "done"
\* The requests admitted on k whose forward completed with a status < 300.
DeliveredOn(k) == {r \in AllowedOn(k) : Delivered(r)}
\* A refund on k failed.
RefundFailedOn(k) ==
    \E r \in Reqs : \E i \in 1..Len(req[r].log) :
        req[r].log[i].ev = "refunderr" /\ req[r].log[i].k = k

C28_UsageAtRest ==
    \A k \in Keys :
        (k \notin expired /\ Quiescent(k)) =>
            /\ Usage(k) >= SumAmounts(DeliveredOn(k))
            /\ ~RefundFailedOn(k) => Usage(k) = SumAmounts(DeliveredOn(k))
C28_FailedRefund ==
    \A r \in Reqs :
        /\ Cardinality(RefundAttempts(r)) <= 1
        /\ (req[r].pc = "done" /\ Has(r, "refunderr")) =>
               req[r].resp = P0ForwardResponse(req[r].up)

\* C28: once the requests on a window have finished, its usage counter is at
\* least the sum of the amounts debited by the requests admitted and
\* delivered with a status < 300, and equal to it when no refund failed; a
\* refund that fails is attempted once, leaves the response as it would
\* have been, and leaves usage higher, never lower.
C28_BestEffortRefund == C28_UsageAtRest /\ C28_FailedRefund

\* The positions in request r's log of the events named in E.
Indexes(r, E) == {i \in 1..Len(req[r].log) : req[r].log[i].ev \in E}
\* Position i of r's log is a failed ledger call after which fail-open was
\* selected.
FailedOpenAt(r, i) ==
    /\ req[r].log[i].ev = "storeerr"
    /\ failOpenSampleRate > 0
    /\ req[r].log[i].n < failOpenSampleRate

\* C29: a budgeted request makes at most one debit attempt; its payload is
\* forwarded at most once, and only after that attempt returned Allowed or
\* after the ledger call failed and fail-open was selected; a refund comes
\* only after a forward that followed an Allowed debit; and exactly one
\* response is written, as the last thing the request does.
C29_AdmissionOrder ==
    \A r \in Reqs :
        /\ Cardinality(Indexes(r, {"allowed", "denied", "storeerr"})) <= 1
        /\ Cardinality(Indexes(r, {"forward"})) <= 1
        /\ \A f \in Indexes(r, {"forward"}) :
              \E d \in 1..(f - 1) :
                  req[r].log[d].ev = "allowed" \/ FailedOpenAt(r, d)
        /\ \A u \in RefundAttempts(r) :
              \E f \in Indexes(r, {"forward"}), d \in Indexes(r, {"allowed"}) :
                  d < f /\ f < u
        /\ Indexes(r, {"respond"}) =
              IF req[r].pc = "done" THEN {Len(req[r].log)} ELSE {}
\* Both ends of the state machine in one run of main.go: one request was
\* admitted, forwarded and answered, another failed open and was forwarded
\* with no debit.
C29_Witness ==
    \E r1, r2 \in Reqs :
        /\ req[r1].pc = "done" /\ Admitted(r1) /\ Has(r1, "forward")
        /\ req[r2].pc = "done" /\ Has(r2, "storeerr") /\ Has(r2, "forward")

\* C30: every request is eventually answered, also when the store or the
\* upstream never replies: a ledger call to a silent store is given up and
\* the request takes the store-unavailable branch, a forward to a silent
\* upstream is given up after the client's fixed timeout and returns an
\* error.
C30_StoreUnavailableBranch ==
    \A r \in Reqs :
        (outage.store /\ req[r].pc \in {"failopen", "forward", "refund", "done"}) =>
            /\ Has(r, "storeerr")
            /\ ~Has(r, "allowed") /\ ~Has(r, "denied")
            /\ req[r].pc = "done" =>
                  \/ req[r].resp = StatusServiceUnavailable
                  \/ Has(r, "forward")
C30_ForwardGivenUp ==
    \A r \in Reqs :
        (outage.upstream /\ Has(r, "forward")) => req[r].up = ForwardErr
C30_EventuallyAnswered ==
    /\ \A r \in Reqs : InFlight(r) ~> (req[r].pc = "done")
    /\ [](C30_StoreUnavailableBranch /\ C30_ForwardGivenUp)
\* main.go with neither the store nor the upstream replying: a request
\* failed open, its forward was given up and it was answered 500.
C30_Witness ==
    \E r \in Reqs :
        /\ outage.store /\ outage.upstream
        /\ req[r].pc = "done"
        /\ Has(r, "storeerr") /\ Has(r, "forward")
        /\ req[r].up = ForwardErr
        /\ req[r].resp = StatusInternalServerError

\* ------------------------------------------------------ bodies not accepted
\* BodySpec: the requests whose body is larger than the limit, fails while
\* it is read, or is declared gzip and is not, next to the requests of Spec,
\* under the default configuration (hourly window, fail closed).
\*
\* part_000 wraps the body in http.MaxBytesReader(8 MiB), buffers it and
\* decompresses it when Content-Encoding is gzip.  main.go has no limit and
\* never looks at Content-Encoding: it buffers the body only when no length
\* is declared.
MaxBodyBytes == 8388608
StatusBadRequest == 400
\* The handler returned without writing a status.
NoStatusWritten == 0
\* How a body is not accepted: over the limit, a read that fails, a gzip
\* header that is invalid, a gzip stream that breaks after its header.
BodyFaults == {"oversize", "readerr", "badgzip", "gunziperr"}
FaultySize(fault) ==
    IF fault = "oversize" THEN {MaxBodyBytes + 1} ELSE MainSizes

\* main.go, no Content-Length: io.ReadAll fails, 500 and return.
MainReadError(r) ==
    /\ handler = "main"
    /\ MayStart(r)
    /\ req' = [req EXCEPT ![r] =
                 Finish(IdleReq, StatusInternalServerError,
                        <<Ev("readerr", NoKey, 0)>>)]
    /\ UNCHANGED <<outage, estimation, startup, handler, budgetWindowType, failOpenSampleRate, now, store, expired>>

\* main.go, any other body: the request size is the declared length (or the
\* length of what was buffered) and the handler goes on to the budget check.
MainStartFaulty(r) ==
    /\ handler = "main"
    /\ MayStart(r)
    /\ \E fault \in BodyFaults : \E requestSize \in FaultySize(fault) :
          req' = [req EXCEPT ![r] = [IdleReq EXCEPT !.pc = "budget",
                                       !.size = requestSize,
                                       !.amount = requestSize,
                                       !.key = getWindowKey(now),
                                       !.log = <<Ev(fault, NoKey, requestSize)>>]]
    /\ UNCHANGED <<outage, estimation, startup, handler, budgetWindowType, failOpenSampleRate, now, store, expired>>

\* part_000: io.ReadAll returns an error (the limit was passed, or the read
\* failed): log and return; or the body is buffered and gzip.NewReader
\* fails: 400; or io.Copy from the gzip reader fails: 500.
P0Reject(r) ==
    /\ handler = "part000"
    /\ MayStart(r)
    /\ \E fault \in BodyFaults : \E requestSize \in FaultySize(fault) :
          req' = [req EXCEPT ![r] =
                    Finish([IdleReq EXCEPT !.size = requestSize],
                           CASE fault \in {"oversize", "readerr"} -> NoStatusWritten
                             [] fault = "badgzip" -> StatusBadRequest
                             [] fault = "gunziperr" -> StatusInternalServerError,
                           <<Ev(fault, NoKey, requestSize)>>)]
    /\ UNCHANGED <<outage, estimation, startup, handler, budgetWindowType, failOpenSampleRate, now, store, expired>>

BodyNext ==
    \E r \in Reqs :
        \/ MainStart(r)
        \/ MainReadError(r)
        \/ MainStartFaulty(r)
        \/ MainBudget(r)
        \/ MainScript(r)
        \/ MainForward(r)
        \/ P0Start(r)
        \/ P0Reject(r)
        \/ P0Script(r)
        \/ P0Forward(r)
        \/ P0Refund(r)

BodySpec == PathInit /\ [][BodyNext]_vars

NotAccepted(r) == \E fault \in BodyFaults : Has(r, fault)

\* C31: a request whose body is over the limit, fails to be read or is
\* declared gzip and cannot be decompressed performs no ledger operation and
\* nothing of it is sent to the upstream.
C31_RejectedBeforeDebit ==
    \A r \in Reqs :
        NotAccepted(r) =>
            \A i \in 1..Len(req[r].log) :
                req[r].log[i].ev \notin
                    {"allowed", "denied", "refund", "forward", "metric"}

\* --------------------------------------------- FAIL_OPEN_SAMPLE_RATE parsing
\* ConfigSpec: init() reads FAIL_OPEN_SAMPLE_RATE, then the handlers serve
\* requests under the hourly window.
\*
\* The texts of the variable: unset, not a number, numbers inside and
\* outside [0, 1], a number with a trailing blank, a literal too large for
\* a float64, and the special values ParseFloat accepts.
RateTexts == {"", "abc", "0", "0.5", "1", "0.5 ", "1.5", "-0.5", "1e400",
              "NaN", "Inf"}
\* strconv.ParseFloat(text, 64): the value in hundredths, or a syntax error,
\* or +Inf with a range error.
ParseRate(text) ==
    CASE text = "0"     -> [err |-> FALSE, f |-> 0]
      [] text = "0.5"   -> [err |-> FALSE, f |-> 50]
      [] text = "1"     -> [err |-> FALSE, f |-> 100]
      [] text = "1.5"   -> [err |-> FALSE, f |-> 150]
      [] text = "-0.5"  -> [err |-> FALSE, f |-> -50]
      [] text = "NaN"   -> [err |-> FALSE, f |-> NaN]
      [] text = "Inf"   -> [err |-> FALSE, f |-> PosInf]
      [] text = "1e400" -> [err |-> TRUE, f |-> PosInf]
      [] OTHER          -> [err |-> TRUE, f |-> 0]

\* main.go:124-137.
MainRate(text) ==
    IF text # ""
    THEN LET rate == ParseRate(text)
         IN  IF rate.err \/ FloatLess(rate.f, 0) \/ FloatGreater(rate.f, 100)
             THEN 0
             ELSE rate.f
    ELSE 0
\* part_000:119-123; the variable keeps its zero value unless the text
\* parses to a number in [0, 1].
P0Rate(text) ==
    IF text # ""
    THEN LET f == ParseRate(text)
         IN  IF ~f.err /\ ~FloatLess(f.f, 0) /\ f.f # NaN /\ ~FloatGreater(f.f, 100)
             THEN f.f
             ELSE 0
    ELSE 0

ConfigInit ==
    /\ outage = NoOutage
    /\ estimation = NoEstimation
    /\ startup \in [pc : {"env"}, rate : RateTexts]
    /\ handler \in Handlers
    /\ budgetWindowType = "hourly"
    /\ failOpenSampleRate = 0
    /\ now = 0
    /\ store = [k \in Keys |-> Absent]
    /\ req = [r \in Reqs |-> IdleReq]
    /\ expired = {}

\* init() sets failOpenSampleRate and returns; the server starts.
LoadRate ==
    /\ startup.pc = "env"
    /\ startup' = [startup EXCEPT !.pc = "serving"]
    /\ failOpenSampleRate' = IF handler = "main" THEN MainRate(startup.rate)
                                                 ELSE P0Rate(startup.rate)
    /\ UNCHANGED <<outage, estimation, handler, budgetWindowType, now, store, req, expired>>

Serve(r) ==
    /\ startup.pc = "serving"
    /\ \/ MainStart(r)
       \/ MainBudget(r)
       \/ MainScript(r)
       \/ MainForward(r)
       \/ MainFailOpenForward(r)
       \/ P0Start(r)
       \/ P0Script(r)
       \/ P0Forward(r)
       \/ P0Refund(r)

ConfigNext == LoadRate \/ \E r \in Reqs : Serve(r)

ConfigSpec == ConfigInit /\ [][ConfigNext]_vars

\* The texts that are not a number in [0.0, 1.0].
InvalidRate(text) == text \notin {"0", "0.5", "1"}

\* C32: a FAIL_OPEN_SAMPLE_RATE that is absent, unparseable or outside
\* [0.0, 1.0] gives a fail-open rate of 0.0.
C32_RateIsZero ==
    (startup.pc = "serving" /\ InvalidRate(startup.rate)) => failOpenSampleRate = 0
\* C32: with such a configuration no request is forwarded after its ledger
\* call failed.
C32_NothingForwarded ==
    InvalidRate(startup.rate) =>
        \A r \in Reqs : ~(Has(r, "storeerr") /\ Has(r, "forward"))
\* C32: both.
C32_InvalidRateFailsClosed == C32_RateIsZero /\ C32_NothingForwarded

\* ------------------------------------------------ expiry and later traffic
\* C33: a debit attempt, allowed or denied, on a window key whose expiry is
\* armed leaves the key with that same expiry.
C33_Step ==
    \A r \in Reqs :
        LedgerCalled(r) =>
            LET k == req'[r].key
            IN  (store[k].exists /\ store[k].exp # NoExpiry) =>
                    /\ store'[k].exists
                    /\ store'[k].exp = store[k].exp
C33_ExpiryUnchanged == [][C33_Step]_vars
\* An attempt at a later tick than the one that armed the expiry found the
\* expiry armed and was allowed; the expiry is not the one a PEXPIRE of this
\* attempt would have set.
C33_Witness ==
    \E r \in Reqs :
        /\ req[r].pc = "done"
        /\ req[r].log[1].ev = "found" /\ req[r].log[1].n >= 0
        /\ req[r].log[2].ev = "allowed"
        /\ now > 0
        /\ store[req[r].key].exists
        /\ store[req[r].key].exp # NoExpiry
        /\ store[req[r].key].exp < now + getWindowTTL

\* C34: when a ledger operation has completed, the key it ran on, if it
\* exists, has an expiry armed.
C34_Step ==
    \A r \in Reqs :
        LedgerCalled(r) =>
            LET k == req'[r].key
            IN  store'[k].exists => store'[k].exp # NoExpiry
C34_EveryKeyExpires == [][C34_Step]_vars

\* ------------------------------------------------------- window isolation
\* The requests with a ledger event on window key k.
TouchedBy(k) == AllowedOn(k) \cup DeniedOn(k) \cup RefundedOn(k)

\* C35: a debit attempt or a refund of a request leaves the counter of every
\* window key but the request's own as it was; and the first debit attempt
\* on the key of the window the clock has entered finds a usage of zero and
\* is allowed exactly when its amount fits the ceiling, whatever the
\* previous windows' counters hold.
C35_Step ==
    \A r \in Reqs :
        /\ (ScriptReturned(r) \/ RefundApplied(r)) =>
              \A k \in Keys \ {req[r].key} : store'[k] = store[k]
        /\ (ScriptReturned(r) /\ TouchedBy(req[r].key) = {}) =>
              /\ Usage(req[r].key) = 0
              /\ ReturnedAllowed(r) <=> req[r].amount <= req[r].budget
              /\ store'[req[r].key].val =
                    IF ReturnedAllowed(r) THEN req[r].amount ELSE 0
C35_WindowsIsolated == [][C35_Step]_vars
\* The first attempt of a new window was allowed although its amount and
\* what the previous window still holds exceed the ceiling together.
C35_Witness ==
    \E r \in Reqs :
        LET k == req[r].key
        IN  /\ k - 1 \in Keys
            /\ AllowedOn(k) = {r}
            /\ DeniedOn(k) = {}
            /\ store[k - 1].exists
            /\ Usage(k) = req[r].amount
            /\ Usage(k - 1) + req[r].amount > req[r].budget

====
